---- MODULE Spec2Model ----
(***************************************************************************)
(* A model of SheetShift's generate-then-execute pipeline:                 *)
(*   - the Column Resolver   (find_column, both copies),                   *)
(*   - the Snippet Executor  (execute_snippet, both copies),               *)
(*   - the Intent Classifier (detect_query_intent),                        *)
(*   - the run               (interactive_loop / process_query_all_sheets  *)
(*                            and the older interactive_loop /             *)
(*                            answer_excel_question).                      *)
(* "V2" names the code of src/excelagent-2.py, "Tool" the code of          *)
(* src/tools/exceltool.py.                                                 *)
(***************************************************************************)
EXTENDS Integers, Sequences, FiniteSets, TLC

VARIABLES
    header,     \* find_column: df.columns, a sequence of column labels
    term,       \* find_column: the search_term argument
    fcV2,       \* outcome of excelagent-2.find_column(df, term)
    fcTool,     \* outcome of exceltool.find_column(df, term)
    heap,       \* the DataFrame objects alive, by reference (index)
    given,      \* execute_snippet: the caller's table as it was at the call
    caller_df,  \* execute_snippet: reference of the df argument
    code,       \* execute_snippet: the snippet (code argument)
    exV2,       \* outcome of excelagent-2.execute_snippet(df, code)
    exTool,     \* outcome of exceltool.execute_snippet(df, code)
    user_query, \* detect_query_intent: the instruction text
    response,   \* detect_query_intent: what model.generate_content gave
    intent,     \* outcome of detect_query_intent(user_query)
    body,       \* the text the model meant, before it wrapped it
    fence,      \* how the model wrapped body: "none", "bare", "python", "json"
    generated,  \* outcome of a code generator on the same response
    variant,    \* which interactive_loop runs: "v2" or "tool"
    path,       \* the path argument
    book,       \* the workbook stored at the path: sheet names and tables
    pc,         \* the run's position
    sheets,     \* all_data["sheets"]: one entry per sheet, in sheet order
    sheet_names,\* all_data["sheet_names"]
    results,    \* process_query_all_sheets: the results record
    targets,    \* sheets_to_update
    cur,        \* position of the update loop in targets
    returned,   \* how interactive_loop returned ("none" while it has not)
    escaped,    \* the exception that left interactive_loop ("none" if none)
    log,        \* the stage events of the run, in order
    credential, \* whether GEMINI_API_KEY is set in the environment
    load_out,   \* outcome of the loader call of the run
    clock,      \* the wall clock, in whole seconds
    files       \* the files written so far, in the order of the writes

resolverVars == <<header, term, fcV2, fcTool>>
executorVars == <<heap, given, caller_df, code, exV2, exTool>>
classifierVars == <<user_query, response, intent, body, fence, generated>>
runVars == <<variant, path, book, pc, sheets, sheet_names, results, targets, cur,
             returned, escaped, log, credential, load_out, clock, files>>

vars == <<header, term, fcV2, fcTool, heap, given, caller_df, code, exV2, exTool,
          user_query, response, intent, body, fence, generated, variant, path, book, pc, sheets,
          sheet_names, results, targets, cur, returned, escaped, log,
          credential, load_out, clock, files>>

(***************************************************************************)
(* Bounds                                                                  *)
(***************************************************************************)
MaxTermLen == 2     \* longest search term, in characters
MaxCols == 2        \* most columns in a header row
MaxStmts == 2       \* most statements in a snippet
MaxRows == 1        \* most rows in a table
MaxPad == 1         \* most whitespace tokens around a part of a response
MaxSheets == 2      \* most sheets in a workbook
MaxWrites == 2      \* most save calls in a row
MaxTicks == 2       \* latest instant of the clock

(***************************************************************************)
(* Program constants                                                       *)
(***************************************************************************)
PreviewRows == 5    \* df.head(5)

(***************************************************************************)
(* Strings are sequences of characters.                                    *)
(***************************************************************************)
Alphabet == {"a", "b", "A", "_", " "}

StringsUpTo(n) == UNION {[1..k -> Alphabet] : k \in 0..n}

\* str.lower() on one character
LowerChar(c) == IF c = "A" THEN "a" ELSE IF c = "B" THEN "b" ELSE c

\* str.lower()
Lower(s) == [i \in 1..Len(s) |-> LowerChar(s[i])]

\* str.replace(ch, ""): every occurrence of the character is removed
Remove(s, ch) == SelectSeq(s, LAMBDA c : c # ch)

\* x in y, for strings
IsSubstring(x, y) ==
    \E i \in 0..(Len(y) - Len(x)) : SubSeq(y, i + 1, i + Len(x)) = x

(***************************************************************************)
(* Column labels and search terms.  A label is a string or, as pandas      *)
(* allows, a number; s holds the text str() gives for it.  A search term   *)
(* is a string, or None when the caller passes no string.                  *)
(***************************************************************************)
StrLabel(s) == [kind |-> "str", s |-> s]
IntLabel(s) == [kind |-> "int", s |-> s]
None == [kind |-> "none", s |-> <<>>]

\* str(col)
Str(col) == col.s

\* <text>.lower().replace("_", "").replace(" ", "")
NormalizeNoUnderscore(s) == Remove(Lower(s), " ")
Normalize(s) == Remove(Remove(Lower(s), "_"), " ")

Returned(v) == [called |-> TRUE, exc |-> "none", val |-> v]
Raised(e) == [called |-> TRUE, exc |-> e, val |-> None]
NotCalled == [called |-> FALSE, exc |-> "none", val |-> None]

\* for col in df.columns: if normalized == search_lower: return col
\* (0 when the loop ends without returning)
RECURSIVE ExactPass(_, _, _)
ExactPass(cols, search_lower, i) ==
    IF i > Len(cols) THEN 0
    ELSE IF Normalize(Str(cols[i])) = search_lower THEN i
    ELSE ExactPass(cols, search_lower, i + 1)

\* for col in df.columns:
\*     if search_lower in normalized or normalized in search_lower: return col
RECURSIVE PartialPassV2(_, _, _)
PartialPassV2(cols, search_lower, i) ==
    IF i > Len(cols) THEN 0
    ELSE IF \/ IsSubstring(search_lower, Normalize(Str(cols[i])))
            \/ IsSubstring(Normalize(Str(cols[i])), search_lower) THEN i
    ELSE PartialPassV2(cols, search_lower, i + 1)

\* for col in df.columns: if search_lower in normalized: return col
RECURSIVE PartialPassTool(_, _, _)
PartialPassTool(cols, search_lower, i) ==
    IF i > Len(cols) THEN 0
    ELSE IF IsSubstring(search_lower, Normalize(Str(cols[i]))) THEN i
    ELSE PartialPassTool(cols, search_lower, i + 1)

\* ---- mutants of find_column (plausible slips) ----
\* the search term keeps its underscores
find_column_v2_raw_term(cols, t) ==
    IF t.kind # "str" THEN Raised("AttributeError")
    ELSE LET sl == NormalizeNoUnderscore(t.s)
             e == ExactPass(cols, sl, 1)
             p == PartialPassV2(cols, sl, 1)
         IN IF e # 0 THEN Returned(cols[e])
            ELSE IF p # 0 THEN Returned(cols[p])
            ELSE Returned(None)

\* one pass only: the substring test decides, exact matches get no priority
find_column_v2_one_pass(cols, t) ==
    IF t.kind # "str" THEN Raised("AttributeError")
    ELSE LET sl == Normalize(t.s)
             p == PartialPassV2(cols, sl, 1)
         IN IF p # 0 THEN Returned(cols[p]) ELSE Returned(None)

\* a miss is an error instead of None
find_column_v2_raise_on_miss(cols, t) ==
    IF t.kind # "str" THEN Raised("AttributeError")
    ELSE LET sl == Normalize(t.s)
             e == ExactPass(cols, sl, 1)
             p == PartialPassV2(cols, sl, 1)
         IN IF e # 0 THEN Returned(cols[e])
            ELSE IF p # 0 THEN Returned(cols[p])
            ELSE Raised("KeyError")

\* excelagent-2.find_column
find_column_v2(cols, t) ==
    IF t.kind # "str" THEN Raised("AttributeError")   \* None.lower()
    ELSE LET sl == Normalize(t.s)
             e == ExactPass(cols, sl, 1)
             p == PartialPassV2(cols, sl, 1)
         IN IF e # 0 THEN Returned(cols[e])
            ELSE IF p # 0 THEN Returned(cols[p])
            ELSE Returned(None)

\* exceltool.find_column
find_column_tool(cols, t) ==
    IF t.kind # "str" THEN Raised("AttributeError")   \* None.lower()
    ELSE LET sl == Normalize(t.s)
             e == ExactPass(cols, sl, 1)
             p == PartialPassTool(cols, sl, 1)
         IN IF e # 0 THEN Returned(cols[e])
            ELSE IF p # 0 THEN Returned(cols[p])
            ELSE Returned(None)

(***************************************************************************)
(* Inputs of the Column Resolver.                                          *)
(***************************************************************************)
Labels ==
    { StrLabel(<<"a">>),              \* "a"
      StrLabel(<<"A", "_", "b">>),    \* "A_b"
      StrLabel(<<"b", " ">>),         \* "b "
      StrLabel(<<"B", "a">>),         \* "Ba"
      StrLabel(<<"_">>),              \* "_"   (normalizes to the empty string)
      StrLabel(<<>>),                 \* ""    (an empty column name)
      IntLabel(<<"1">>) }             \* 1     (a numeric header)

Headers == UNION {[1..k -> Labels] : k \in 0..MaxCols}

Terms == {StrLabel(s) : s \in StringsUpTo(MaxTermLen)} \cup {None}

ResolverIdle ==
    /\ header = <<>>
    /\ term = None
    /\ fcV2 = NotCalled
    /\ fcTool = NotCalled

CallFindColumnV2 ==
    /\ ~fcV2.called
    /\ fcV2' = find_column_v2(header, term)
    /\ UNCHANGED <<header, term, fcTool>>
    /\ UNCHANGED <<executorVars, classifierVars, runVars>>

CallFindColumnTool ==
    /\ ~fcTool.called
    /\ fcTool' = find_column_tool(header, term)
    /\ UNCHANGED <<header, term, fcV2>>
    /\ UNCHANGED <<executorVars, classifierVars, runVars>>


(***************************************************************************)
(* The Snippet Executor.                                                   *)
(*                                                                         *)
(* A table is its column list and its rows; DataFrame objects live in a    *)
(* heap and are passed by reference, as Python passes them.  A snippet is  *)
(* a sequence of statements of the kinds the generator prompts ask for     *)
(* (in-place edits of df, assignments to result / new_df /                 *)
(* new_sheet_name) and the ways a statement can stop the snippet.          *)
(***************************************************************************)
Table(cols, rows) == [columns |-> cols, rows |-> rows]

\* pd.DataFrame()
EmptyTable == Table(<<>>, <<>>)

ColumnLists == {<<>>, <<"Item">>, <<"Item", "Qty">>}
CellValues == {0, 1}

TablesOver(cols) ==
    IF cols = <<>> THEN {EmptyTable}
    ELSE {Table(cols, rows) :
             rows \in UNION {[1..n -> [1..Len(cols) -> CellValues]] : n \in 0..MaxRows}}

Tables == UNION {TablesOver(cols) : cols \in ColumnLists}

\* Python values a snippet variable can hold after exec
PyNone == [t |-> "none", ref |-> 0]
PyTable(r) == [t |-> "table", ref |-> r]
PyOther == [t |-> "value", ref |-> 0]
PyRecords(r) == [t |-> "records", ref |-> r]

Statements ==
    { "set_cell",     \* df.iloc[0, 0] = 9          (in place)
      "drop_col",     \* df.drop(columns=[df.columns[0]], inplace=True)
      "result_df",    \* result = df
      "result_val",   \* result = {"rows": len(df)}
      "new_df",       \* new_df = pd.DataFrame({"Item": ["Ruler"]})
      "name_new",     \* new_sheet_name = "NewItems"
      "name_taken",   \* new_sheet_name = "Sheet1"
      "raise",        \* raise ValueError("bad")
      "exit" }        \* raise SystemExit (exit(), sys.exit())

Snippets == UNION {[1..k -> Statements] : k \in 0..MaxStmts}

\* classes the clause "except Exception" catches; SystemExit derives from
\* BaseException only
ExceptionClasses ==
    {"ValueError", "IndexError", "KeyError", "TypeError", "AttributeError",
     "FileNotFoundError", "OSError", "JSONDecodeError", "APIError"}
IsException(e) == e \in ExceptionClasses

NewTable == Table(<<"Item">>, << <<1>> >>)

\* df.copy(): a new object with the same columns and rows
CopyShared(h, r) == [heap |-> h, ref |-> r]
Copy(h, r) == [heap |-> Append(h, h[r]), ref |-> Len(h) + 1]

\* the namespace local_vars, as far as the executor reads it back
Namespace(h, r) ==
    [heap |-> h, df |-> r, result |-> PyNone, new_df |-> PyNone,
     new_sheet_name |-> "", exc |-> "none"]

SetCell(t) ==
    Table(t.columns, [t.rows EXCEPT ![1] = [t.rows[1] EXCEPT ![1] = 9]])
DropCol(t) ==
    Table(Tail(t.columns), [i \in 1..Len(t.rows) |-> Tail(t.rows[i])])

\* one statement of the snippet, run in the namespace
Step(ns, stmt) ==
    LET t == ns.heap[ns.df] IN
    CASE stmt = "set_cell" ->
           IF Len(t.rows) = 0 \/ Len(t.columns) = 0
           THEN [ns EXCEPT !.exc = "IndexError"]
           ELSE [ns EXCEPT !.heap[ns.df] = SetCell(t)]
      [] stmt = "drop_col" ->
           IF Len(t.columns) = 0
           THEN [ns EXCEPT !.exc = "IndexError"]
           ELSE [ns EXCEPT !.heap[ns.df] = DropCol(t)]
      [] stmt = "result_df" -> [ns EXCEPT !.result = PyTable(ns.df)]
      [] stmt = "result_val" -> [ns EXCEPT !.result = PyOther]
      [] stmt = "new_df" ->
           [ns EXCEPT !.heap = Append(ns.heap, NewTable),
                      !.new_df = PyTable(Len(ns.heap) + 1)]
      [] stmt = "name_new" -> [ns EXCEPT !.new_sheet_name = "NewItems"]
      [] stmt = "name_taken" -> [ns EXCEPT !.new_sheet_name = "Sheet1"]
      [] stmt = "raise" -> [ns EXCEPT !.exc = "ValueError"]
      [] stmt = "exit" -> [ns EXCEPT !.exc = "SystemExit"]

\* exec(textwrap.dedent(code), {}, local_vars): statements run in order
\* until one raises
RECURSIVE Exec(_, _, _)
Exec(stmts, i, ns) ==
    IF i > Len(stmts) \/ ns.exc # "none" THEN ns
    ELSE Exec(stmts, i + 1, Step(ns, stmts[i]))

\* what a call of execute_snippet leaves: the heap, and as its outcome the
\* exception that left the call ("none" when it returned), the returned
\* record, and for the properties the condition the snippet raised and the
\* copy it ran on
ExecOutcome(h, prop, ret, cond, local) ==
    [heap |-> h,
     out |-> [called |-> TRUE, propagated |-> prop, ret |-> ret,
              snippet_exc |-> cond, local_df |-> local]]

NoRecord ==
    [ok |-> FALSE, result |-> PyNone, new_sheet_name |-> "", new_df |-> PyNone,
     error |-> "", traceback |-> ""]

ExecNotCalled ==
    [called |-> FALSE, propagated |-> "none", ret |-> NoRecord,
     snippet_exc |-> "none", local_df |-> 0]

\* excelagent-2.execute_snippet (extra_vars is None at every call site)
execute_snippet_v2(h, df, snippet) ==
    LET c == Copy(h, df)
        ns == Exec(snippet, 1, Namespace(c.heap, c.ref))
    IN  IF ns.exc = "none"
        THEN ExecOutcome(ns.heap, "none",
                 [ok |-> TRUE, result |-> ns.result,
                  new_sheet_name |-> ns.new_sheet_name, new_df |-> ns.new_df,
                  error |-> "", traceback |-> ""],
                 ns.exc, c.ref)
        ELSE IF IsException(ns.exc)
        THEN ExecOutcome(ns.heap, "none",
                 [ok |-> FALSE, result |-> PyNone,
                  new_sheet_name |-> "", new_df |-> PyNone,
                  error |-> ns.exc, traceback |-> ns.exc],
                 ns.exc, c.ref)
        ELSE ExecOutcome(ns.heap, ns.exc, NoRecord, ns.exc, c.ref)

\* exceltool.execute_snippet: a DataFrame result is returned as records
execute_snippet_tool(h, df, snippet) ==
    LET c == Copy(h, df)
        ns == Exec(snippet, 1, Namespace(c.heap, c.ref))
    IN  IF ns.exc = "none"
        THEN ExecOutcome(ns.heap, "none",
                 [ok |-> TRUE,
                  result |-> IF ns.result.t = "table"
                             THEN PyRecords(ns.result.ref) ELSE ns.result,
                  new_sheet_name |-> "", new_df |-> PyNone,
                  error |-> "", traceback |-> ""],
                 ns.exc, c.ref)
        ELSE IF IsException(ns.exc)
        THEN ExecOutcome(ns.heap, "none",
                 [ok |-> FALSE, result |-> PyNone,
                  new_sheet_name |-> "", new_df |-> PyNone,
                  error |-> ns.exc, traceback |-> ns.exc],
                 ns.exc, c.ref)
        ELSE ExecOutcome(ns.heap, ns.exc, NoRecord, ns.exc, c.ref)

ExecutorIdle ==
    /\ heap = <<>>
    /\ given = EmptyTable
    /\ caller_df = 0
    /\ code = <<>>
    /\ exV2 = ExecNotCalled
    /\ exTool = ExecNotCalled

CallExecuteSnippetV2 ==
    /\ ~exV2.called
    /\ LET r == execute_snippet_v2(heap, caller_df, code)
       IN /\ exV2' = r.out
          /\ heap' = r.heap
    /\ UNCHANGED <<given, caller_df, code, exTool>>
    /\ UNCHANGED <<resolverVars, classifierVars, runVars>>

CallExecuteSnippetTool ==
    /\ ~exTool.called
    /\ LET r == execute_snippet_tool(heap, caller_df, code)
       IN /\ exTool' = r.out
          /\ heap' = r.heap
    /\ UNCHANGED <<given, caller_df, code, exV2>>
    /\ UNCHANGED <<resolverVars, classifierVars, runVars>>

(***************************************************************************)
(* The Intent Classifier.                                                  *)
(*                                                                         *)
(* A response text is a sequence of tokens: whitespace, the fence marker   *)
(* ```, bare words (a fence's language tag, null, prose), JSON string and  *)
(* number literals and JSON punctuation.  A JSON value is a tagged record; *)
(* a list keeps its items in kids, an object its keys in keys and the      *)
(* values, in the same order, in kids.                                     *)
(***************************************************************************)
Ws == [k |-> "ws", v |-> " "]
\* the marker made of three backticks
Fence == [k |-> "fence", v |-> "backticks"]
Word(w) == [k |-> "word", v |-> w]
StrTok(x) == [k |-> "str", v |-> x]
NumTok(x) == [k |-> "num", v |-> x]
Punct(x) == [k |-> "punct", v |-> x]

JNull == [t |-> "null", s |-> "", kids |-> <<>>, keys |-> <<>>]
JStr(x) == [t |-> "str", s |-> x, kids |-> <<>>, keys |-> <<>>]
JNum(x) == [t |-> "num", s |-> x, kids |-> <<>>, keys |-> <<>>]
JList(items) == [t |-> "list", s |-> "", kids |-> items, keys |-> <<>>]
JObj(ks, vs) == [t |-> "obj", s |-> "", kids |-> vs, keys |-> ks]

\* key in d, for a dict
HasKey(d, key) == \E i \in 1..Len(d.keys) : d.keys[i] = key
\* d[key]: the value the last occurrence of the key was given
Get(d, key) ==
    d.kids[CHOOSE i \in 1..Len(d.keys) :
               /\ d.keys[i] = key
               /\ \A j \in (i + 1)..Len(d.keys) : d.keys[j] # key]

\* str.strip()
RECURSIVE LStrip(_)
LStrip(toks) ==
    IF toks # <<>> /\ Head(toks).k = "ws" THEN LStrip(Tail(toks)) ELSE toks
RECURSIVE RStrip(_)
RStrip(toks) ==
    IF toks # <<>> /\ toks[Len(toks)].k = "ws"
    THEN RStrip(SubSeq(toks, 1, Len(toks) - 1)) ELSE toks
StripLeftOnly(toks) == LStrip(toks)
Strip(toks) == RStrip(LStrip(toks))

\* text.replace("```" + tag, ""): every fence directly followed by the tag
RECURSIVE ReplaceTaggedFence(_, _)
ReplaceTaggedFence(toks, tag) ==
    IF toks = <<>> THEN <<>>
    ELSE IF Len(toks) >= 2 /\ toks[1] = Fence /\ toks[2] = Word(tag)
    THEN ReplaceTaggedFence(SubSeq(toks, 3, Len(toks)), tag)
    ELSE <<Head(toks)>> \o ReplaceTaggedFence(Tail(toks), tag)

\* text.replace("```", "")
ReplaceFence(toks) == SelectSeq(toks, LAMBDA t : t # Fence)

\* for marker in ("```json", "```"): result_text = result_text.replace(marker, "")
StripMarkers(toks, tag) == ReplaceFence(ReplaceTaggedFence(toks, tag))

\* ---- json.loads ----
RECURSIVE SkipWs(_, _)
SkipWs(toks, i) ==
    IF i <= Len(toks) /\ toks[i].k = "ws" THEN SkipWs(toks, i + 1) ELSE i

ParseFail == [ok |-> FALSE, val |-> JNull, next |-> 0]
ParseOk(v, n) == [ok |-> TRUE, val |-> v, next |-> n]

RECURSIVE ParseValue(_, _)
RECURSIVE ParseItems(_, _, _)
RECURSIVE ParseMembers(_, _, _, _)

\* the items of a list, from the first item on, up to the closing bracket
ParseItems(toks, i, acc) ==
    LET v == ParseValue(toks, i)
        j == IF v.ok THEN SkipWs(toks, v.next) ELSE 0
    IN  IF ~v.ok \/ j > Len(toks) THEN ParseFail
        ELSE IF toks[j] = Punct(",") THEN ParseItems(toks, j + 1, Append(acc, v.val))
        ELSE IF toks[j] = Punct("]") THEN ParseOk(JList(Append(acc, v.val)), j + 1)
        ELSE ParseFail

\* the members of an object, from the first key on, up to the closing brace
ParseMembers(toks, i, ks, vs) ==
    LET j == SkipWs(toks, i)
        c == SkipWs(toks, j + 1)
        v == IF j <= Len(toks) /\ toks[j].k = "str"
                /\ c <= Len(toks) /\ toks[c] = Punct(":")
             THEN ParseValue(toks, c + 1) ELSE ParseFail
        e == IF v.ok THEN SkipWs(toks, v.next) ELSE 0
    IN  IF ~v.ok \/ e > Len(toks) THEN ParseFail
        ELSE IF toks[e] = Punct(",")
        THEN ParseMembers(toks, e + 1, Append(ks, toks[j].v), Append(vs, v.val))
        ELSE IF toks[e] = Punct("}")
        THEN ParseOk(JObj(Append(ks, toks[j].v), Append(vs, v.val)), e + 1)
        ELSE ParseFail

ParseValue(toks, i) ==
    LET j == SkipWs(toks, i) IN
    IF j > Len(toks) THEN ParseFail
    ELSE LET t == toks[j] IN
         CASE t.k = "str" -> ParseOk(JStr(t.v), j + 1)
           [] t.k = "num" -> ParseOk(JNum(t.v), j + 1)
           [] t = Word("null") -> ParseOk(JNull, j + 1)
           [] t = Punct("[") ->
                LET c == SkipWs(toks, j + 1) IN
                IF c <= Len(toks) /\ toks[c] = Punct("]")
                THEN ParseOk(JList(<<>>), c + 1)
                ELSE ParseItems(toks, j + 1, <<>>)
           [] t = Punct("{") ->
                LET c == SkipWs(toks, j + 1) IN
                IF c <= Len(toks) /\ toks[c] = Punct("}")
                THEN ParseOk(JObj(<<>>, <<>>), c + 1)
                ELSE ParseMembers(toks, j + 1, <<>>, <<>>)
           [] OTHER -> ParseFail

\* json.loads(text): one value, then nothing but whitespace; ok = FALSE
\* stands for JSONDecodeError
JsonLoads(toks) ==
    LET v == ParseValue(toks, 1)
    IN  IF v.ok /\ SkipWs(toks, v.next) > Len(toks) THEN v ELSE ParseFail

Intents == {"create_new_sheet", "update_existing", "query_data"}

\* the record the except clause returns
FallbackEmptyDescription(q) ==
    JObj(<<"intent", "target_sheets", "new_sheet_name", "fields_to_update",
           "description">>,
         <<JStr("query_data"), JNull, JNull, JNull, JStr("")>>)
Fallback(q) ==
    JObj(<<"intent", "target_sheets", "new_sheet_name", "fields_to_update",
           "description">>,
         <<JStr("query_data"), JNull, JNull, JNull, JStr(q)>>)

\* what model.generate_content(prompt) gave: a text, a response whose
\* .text raises (no candidate), or an exception of the API call itself
TextResponse(toks, cls) == [kind |-> "text", toks |-> toks, class |-> cls]
NoTextResponse == [kind |-> "no_text", toks |-> <<>>, class |-> "none"]
ApiError == [kind |-> "api_error", toks |-> <<>>, class |-> "none"]

IntentOutcome(prop, v) == [called |-> TRUE, propagated |-> prop, ret |-> v]
IntentNotCalled == [called |-> FALSE, propagated |-> "none", ret |-> JNull]

\* the text the classifier hands to json.loads
Cleaned(toks) == Strip(StripMarkers(Strip(toks), "json"))

\* ---- mutants of detect_query_intent ----
\* the parse error is not caught
detect_query_intent_no_except(q, resp) ==
    IF resp.kind = "api_error" THEN IntentOutcome("APIError", JNull)
    ELSE IF resp.kind = "no_text" THEN IntentOutcome("ValueError", JNull)
    ELSE LET parsed == JsonLoads(Cleaned(resp.toks))
         IN  IF parsed.ok THEN IntentOutcome("none", parsed.val)
             ELSE IntentOutcome("JSONDecodeError", JNull)

\* the fallback record loses the instruction
detect_query_intent_blank_fallback(q, resp) ==
    IF resp.kind = "api_error" THEN IntentOutcome("APIError", JNull)
    ELSE IF resp.kind = "no_text" THEN IntentOutcome("none", FallbackEmptyDescription(q))
    ELSE LET parsed == JsonLoads(Cleaned(resp.toks))
         IN  IF parsed.ok THEN IntentOutcome("none", parsed.val)
             ELSE IntentOutcome("none", FallbackEmptyDescription(q))

\* detect_query_intent; the model call is outside the try block, reading
\* response.text, the marker stripping and json.loads are inside it
detect_query_intent(q, resp) ==
    IF resp.kind = "api_error" THEN IntentOutcome("APIError", JNull)
    ELSE IF resp.kind = "no_text" THEN IntentOutcome("none", Fallback(q))
    ELSE LET parsed == JsonLoads(Cleaned(resp.toks))
         IN  IF parsed.ok THEN IntentOutcome("none", parsed.val)
             ELSE IntentOutcome("none", Fallback(q))

(***************************************************************************)
(* Inputs of the Intent Classifier: serialized sample values, every        *)
(* truncation of them, prose, the empty text; bare or fenced, padded with  *)
(* whitespace.                                                             *)
(***************************************************************************)
RECURSIVE Ser(_)
RECURSIVE SerItems(_, _)
RECURSIVE SerMembers(_, _)
SerItems(v, i) ==
    IF i > Len(v.kids) THEN <<>>
    ELSE (IF i > 1 THEN <<Punct(",")>> ELSE <<>>) \o Ser(v.kids[i]) \o SerItems(v, i + 1)
SerMembers(v, i) ==
    IF i > Len(v.kids) THEN <<>>
    ELSE (IF i > 1 THEN <<Punct(","), Ws>> ELSE <<>>)
         \o <<StrTok(v.keys[i]), Punct(":"), Ws>> \o Ser(v.kids[i]) \o SerMembers(v, i + 1)
Ser(v) ==
    CASE v.t = "null" -> <<Word("null")>>
      [] v.t = "str" -> <<StrTok(v.s)>>
      [] v.t = "num" -> <<NumTok(v.s)>>
      [] v.t = "list" -> <<Punct("[")>> \o SerItems(v, 1) \o <<Punct("]")>>
      [] v.t = "obj" -> <<Punct("{")>> \o SerMembers(v, 1) \o <<Punct("}")>>

\* the record the prompt asks for
IntentRecord(i, target_sheets, desc) ==
    JObj(<<"intent", "target_sheets", "new_sheet_name", "fields_to_update",
           "description">>,
         <<JStr(i), target_sheets, JNull, JNull, JStr(desc)>>)

TargetChoices ==
    { JList(<<JStr("all")>>), JList(<<JStr("Sheet1")>>),
      JList(<<JStr("Summary"), JStr("Sheet2")>>),    \* the first is no sheet of any workbook
      JNull }

WellShaped ==
    {IntentRecord(i, t, "what the user wants") : i \in Intents, t \in TargetChoices}

\* well-formed JSON that is not the record asked for
OddShaped ==
    { JList(<<>>), JStr("query_data"), JNull, JNum("42"), JObj(<<>>, <<>>),
      JObj(<<"intent">>, <<JStr("update_existing")>>),
      JObj(<<"description">>, <<JStr("no intent given")>>),
      JObj(<<"intent", "description">>, <<JStr("delete_sheet"), JStr("drop it")>>),
      JObj(<<"intent", "description">>, <<JNull, JStr("undecided")>>),
      JObj(<<"intent", "description">>, <<JStr("update_existing"), JStr("raise pay")>>) }

SampleValues == WellShaped \cup OddShaped

Prose == { <<Word("Sure"), Ws, Word("here")>>,
           <<Word("json"), Ws>> \o Ser(JObj(<<>>, <<>>)),
           Ser(JObj(<<>>, <<>>)) \o <<Ws, Word("done")>> }

Truncations(toks) == {SubSeq(toks, 1, n) : n \in 1..(Len(toks) - 1)}

Pads == UNION {[1..n -> {Ws}] : n \in 0..MaxPad}

\* a body as the model may wrap it: bare, or between an opening fence
\* (bare or tagged json) and a closing fence; whitespace around each part
Wrappings(b) ==
    {pre \o b \o post : pre \in Pads, post \in Pads}
    \cup {pre \o open \o <<Ws>> \o b \o <<Ws, Fence>> \o post :
             pre \in Pads, post \in Pads,
             open \in {<<Fence>>, <<Fence, Word("json")>>}}

Responses ==
    UNION {{TextResponse(w, "wellformed") : w \in Wrappings(Ser(v))} : v \in SampleValues}
    \cup UNION {{TextResponse(w, "truncated") : w \in Wrappings(b)} :
                   b \in UNION {Truncations(Ser(v)) : v \in SampleValues}}
    \cup UNION {{TextResponse(w, "prose") : w \in Wrappings(b)} : b \in Prose}
    \cup {TextResponse(w, "empty") : w \in Wrappings(<<>>)}
    \cup {NoTextResponse, ApiError}

UserQueries == {"add 1 to Qty in all sheets", "how many rows are there"}

\* ---- the tail shared by generate_new_sheet_code, generate_update_code,
\* generate_query_code and exceltool.generate_code ----
GeneratorOutcome(prop, toks) == [called |-> TRUE, propagated |-> prop, text |-> toks]
GeneratorNotCalled == [called |-> FALSE, propagated |-> "none", text |-> <<>>]

\* ---- mutant of generator_tail: the bare marker is replaced first ----
generator_tail_bare_marker_first(resp) ==
    IF resp.kind = "api_error" THEN GeneratorOutcome("APIError", <<>>)
    ELSE IF resp.kind = "no_text" THEN GeneratorOutcome("ValueError", <<>>)
    ELSE GeneratorOutcome("none",
            Strip(ReplaceTaggedFence(ReplaceFence(Strip(resp.toks)), "python")))

\* code = response.text.strip(); the two replaces; return code.strip().
\* Nothing here is inside a try.
generator_tail(resp) ==
    IF resp.kind = "api_error" THEN GeneratorOutcome("APIError", <<>>)
    ELSE IF resp.kind = "no_text" THEN GeneratorOutcome("ValueError", <<>>)
    ELSE GeneratorOutcome("none", Strip(StripMarkers(Strip(resp.toks), "python")))

\* bodies free of the fence marker: JSON texts, code-like texts with
\* whitespace inside and around, texts that start with a language tag,
\* the empty text
Bodies ==
    {Ser(v) : v \in WellShaped}
    \cup { Ser(JObj(<<>>, <<>>)), Ser(JNull),
           <<Punct("{"), StrTok("intent"), Punct(":")>>,
           <<Word("x"), Ws, Word("y")>>,
           <<Ws, Word("x"), Ws, Ws, Word("y"), Ws>>,
           <<Word("python"), Ws, Word("x")>>,
           <<Word("json"), Ws, Word("x")>>,
           <<>> }

NonEmptyPads == Pads \ {<<>>}

\* a body as the model wraps it: not at all, or between an opening fence
\* (bare or tagged) on a line of its own and a closing fence
WrappedAs(b, how) ==
    IF how = "none" THEN {pre \o b \o post : pre \in Pads, post \in Pads}
    ELSE {pre \o <<Fence>> \o (IF how = "bare" THEN <<>> ELSE <<Word(how)>>)
              \o nl \o b \o mid \o <<Fence>> \o post :
             pre \in Pads, nl \in NonEmptyPads, mid \in Pads, post \in Pads}

ClassifierIdle ==
    /\ user_query = ""
    /\ response = ApiError
    /\ intent = IntentNotCalled
    /\ body = <<>>
    /\ fence = "none"
    /\ generated = GeneratorNotCalled

CallDetectQueryIntent ==
    /\ ~intent.called
    /\ intent' = detect_query_intent(user_query, response)
    /\ UNCHANGED <<user_query, response, body, fence, generated>>
    /\ UNCHANGED <<resolverVars, executorVars, runVars>>

(***************************************************************************)
(* The run: interactive_loop and what it calls.                            *)
(***************************************************************************)
\* a path argument: blank or not, whether a file exists there, and its
\* parts as os.path.split and os.path.splitext give them; a file name is a
\* sequence of pieces of text
PathNamed(dir, stem, ext) ==
    [blank |-> FALSE, exists |-> TRUE, dir |-> dir, stem |-> stem, ext |-> ext]
Path(blank, exists, ext) ==
    [blank |-> blank, exists |-> exists, dir |-> "data",
     stem |-> IF blank THEN <<>> ELSE <<"book">>, ext |-> ext]

Paths ==
    { Path(TRUE, FALSE, ""),          \* "  "
      Path(FALSE, FALSE, ".xlsx"),    \* no such file
      Path(FALSE, TRUE, ".xlsx"),
      Path(FALSE, TRUE, ".XLS"),
      Path(FALSE, TRUE, ".csv"),
      Path(FALSE, TRUE, ".txt"),
      Path(FALSE, FALSE, ".txt"),     \* no such file, and not a table format
      Path(FALSE, TRUE, ".CSV"),
      Path(FALSE, TRUE, "") }

\* os.path.splitext(path)[1].lower()
LowerExt(x) ==
    IF x = ".XLS" THEN ".xls" ELSE IF x = ".XLSX" THEN ".xlsx"
    ELSE IF x = ".CSV" THEN ".csv" ELSE x

AllSheetNames == <<"Sheet1", "Sheet2", "Sheet3", "Sheet4">>

\* tables of a workbook: one with a row, one with a header only
RunTables == {Table(<<"Item", "Qty">>, << <<1, 0>> >>), Table(<<"Item">>, <<>>)}

Book(names, tables) == [names |-> names, tables |-> tables]

Books ==
    UNION {{Book(SubSeq(AllSheetNames, 1, n), t) : t \in [1..n -> RunTables]} :
              n \in 1..MaxSheets}

\* the instruction text; the second one is an exit command once stripped
\* and lower-cased
RunQueries == {"add 1 to Qty in all sheets", " Exit "}
IsExitCommand(q) == q \in {" Exit ", "exit", "quit"}

\* df.head(5)
Head5(rows) ==
    SubSeq(rows, 1, IF Len(rows) < PreviewRows THEN Len(rows) ELSE PreviewRows)

\* one entry of all_data["sheets"]
SheetEntry(name, ref, t) ==
    [name |-> name, df |-> ref, columns |-> t.columns, preview |-> Head5(t.rows),
     shape |-> <<Len(t.rows), Len(t.columns)>>]

\* raised is the exception's class and msg says which raise statement it was
Loaded(raised, msg, h, entries, names) ==
    [raised |-> raised, msg |-> msg, heap |-> h, sheets |-> entries,
     sheet_names |-> names]

\* ---- mutant of load_all_sheets: the extension is looked at before the path ----
load_all_sheets_extension_first(p, b, h) ==
    IF p.blank THEN Loaded("ValueError", "path required", h, <<>>, <<>>)
    ELSE IF LowerExt(p.ext) \notin {".csv", ".xls", ".xlsx"}
    THEN Loaded("ValueError", "Unsupported file type", h, <<>>, <<>>)
    ELSE IF ~p.exists THEN Loaded("FileNotFoundError", "File not found", h, <<>>, <<>>)
    ELSE IF LowerExt(p.ext) = ".csv"
    THEN Loaded("none", "", Append(h, b.tables[1]),
                <<SheetEntry("CSV", Len(h) + 1, b.tables[1])>>, <<"CSV">>)
    ELSE Loaded("none", "", h \o b.tables,
                [i \in 1..Len(b.names) |->
                    SheetEntry(b.names[i], Len(h) + i, b.tables[i])],
                b.names)

\* load_all_sheets(path); every table read becomes an object of the heap
load_all_sheets(p, b, h) ==
    IF p.blank THEN Loaded("ValueError", "path required", h, <<>>, <<>>)
    ELSE IF ~p.exists THEN Loaded("FileNotFoundError", "File not found", h, <<>>, <<>>)
    ELSE IF LowerExt(p.ext) = ".csv"
    THEN Loaded("none", "", Append(h, b.tables[1]),
                <<SheetEntry("CSV", Len(h) + 1, b.tables[1])>>, <<"CSV">>)
    ELSE IF LowerExt(p.ext) \in {".xls", ".xlsx"}
    THEN Loaded("none", "", h \o b.tables,
                [i \in 1..Len(b.names) |->
                    SheetEntry(b.names[i], Len(h) + i, b.tables[i])],
                b.names)
    ELSE Loaded("ValueError", "Unsupported file type", h, <<>>, <<>>)

\* load_excel_or_csv(path, None); typed is what the user answers when a
\* workbook has several sheets ("" picks the first)
load_excel_or_csv(p, b, h, typed) ==
    IF p.blank THEN Loaded("ValueError", "path required", h, <<>>, <<>>)
    ELSE IF ~p.exists THEN Loaded("FileNotFoundError", "File not found", h, <<>>, <<>>)
    ELSE IF LowerExt(p.ext) \in {".xls", ".xlsx"}
    THEN LET name == IF Len(b.names) > 1
                     THEN (IF typed = "" THEN b.names[1] ELSE typed)
                     ELSE b.names[1]
         IN  IF \E i \in 1..Len(b.names) : b.names[i] = name
             THEN LET i == CHOOSE i \in 1..Len(b.names) : b.names[i] = name
                  IN  Loaded("none", "", Append(h, b.tables[i]),
                             <<SheetEntry(name, Len(h) + 1, b.tables[i])>>, <<name>>)
             ELSE Loaded("ValueError", "Worksheet not found", h, <<>>, <<>>)
    ELSE IF LowerExt(p.ext) = ".csv"
    THEN Loaded("none", "", Append(h, b.tables[1]),
                <<SheetEntry("CSV", Len(h) + 1, b.tables[1])>>, <<"CSV">>)
    ELSE Loaded("ValueError", "Unsupported file type", h, <<>>, <<>>)

\* sheet_name in sheets, sheets[sheet_name]
InSheets(sh, name) == \E i \in 1..Len(sh) : sh[i].name = name
SheetIdx(sh, name) == CHOOSE i \in 1..Len(sh) : sh[i].name = name

\* the classifier's responses a run draws from: every sample value as the
\* prompt asks for it, one fenced, malformed ones, and the failures
RunResponses ==
    {TextResponse(Ser(v), "wellformed") : v \in SampleValues}
    \cup { TextResponse(<<Fence, Word("json"), Ws>>
                        \o Ser(IntentRecord("update_existing", JList(<<JStr("all")>>), "fenced"))
                        \o <<Ws, Fence>>, "wellformed"),
           TextResponse(<<Word("Sure"), Ws, Word("here")>>, "prose"),
           TextResponse(<<Punct("{"), StrTok("intent"), Punct(":")>>, "truncated"),
           NoTextResponse, ApiError }

\* the snippets a run's generators draw from
RunSnippets ==
    { <<>>,                          \* assigns nothing
      <<"result_df">>,               \* the no-op update: result = df
      <<"set_cell", "result_df">>,   \* edit, then result = df
      <<"set_cell">>,                \* in-place edit only
      <<"drop_col", "result_df">>,   \* a column dropped, then result = df
      <<"result_val">>,              \* a non-table result
      <<"drop_col", "raise">>,       \* edit, then an error
      <<"exit">>,                    \* an exit request
      <<"new_df", "name_new">>,      \* a new table and its name
      <<"new_df", "name_taken">>,    \* a new table under a name the workbook has
      <<"new_df">> }                 \* a new table, no name

\* what a generator call gives: the code, or the API call raising
Generated(c) == [ok |-> TRUE, code |-> c]
GenerationFailed == [ok |-> FALSE, code |-> <<>>]
GenOutcomes == {Generated(c) : c \in RunSnippets} \cup {GenerationFailed}

\* a step of the run: which, for which sheet, whether it went well, and for
\* an execution the snippet that was run
Event(ev, sheet, ok) == [ev |-> ev, sheet |-> sheet, ok |-> ok, code |-> <<>>]
ExecEvent(sheet, ok, snippet) ==
    [ev |-> "execute", sheet |-> sheet, ok |-> ok, code |-> snippet]

ErrorEntry(what, sheet, err) == [what |-> what, sheet |-> sheet, error |-> err]

NoResults ==
    [intent |-> JNull, sheets_processed |-> <<>>, new_sheets |-> <<>>,
     errors |-> <<>>, saved |-> FALSE, query_result |-> FALSE]

\* results = {"intent": intent_info["intent"], "sheets_processed": [], ...}
NewResults(i) == [NoResults EXCEPT !.intent = i]

\* intent_info['intent'], intent_info['description'] (lines 350-351): the
\* exception they raise, "none" when both can be read
ReadIntent(info) ==
    IF info.t # "obj" THEN "TypeError"
    ELSE IF ~HasKey(info, "intent") \/ ~HasKey(info, "description") THEN "KeyError"
    ELSE "none"

Selected(raised, names) == [raised |-> raised, names |-> names]

\* ---- mutant of select_targets: "all" gives the sheets in no kept order ----
select_targets_unordered(info, names) ==
    LET ts == IF HasKey(info, "target_sheets")
              THEN Get(info, "target_sheets") ELSE JList(<<JStr("all")>>)
        back == [i \in 1..Len(names) |-> names[Len(names) + 1 - i]]
    IN  CASE ts.t = "list" ->
               IF \E i \in 1..Len(ts.kids) : ts.kids[i] = JStr("all")
               THEN Selected("none", back)
               ELSE Selected("none", [i \in 1..Len(ts.kids) |-> ts.kids[i].s])
          [] ts.t = "str" ->
               IF ts.s = "all" THEN Selected("none", back) ELSE Selected("none", <<>>)
          [] OTHER -> Selected("TypeError", <<>>)

\* target_sheets = intent_info.get("target_sheets", ["all"])
\* sheets_to_update = sheet_names if "all" in target_sheets else target_sheets
select_targets(info, names) ==
    LET ts == IF HasKey(info, "target_sheets")
              THEN Get(info, "target_sheets") ELSE JList(<<JStr("all")>>)
    IN  CASE ts.t = "list" ->
               IF \E i \in 1..Len(ts.kids) : ts.kids[i] = JStr("all")
               THEN Selected("none", names)
               ELSE Selected("none", [i \in 1..Len(ts.kids) |-> ts.kids[i].s])
          [] ts.t = "str" ->
               IF ts.s = "all" THEN Selected("none", names) ELSE Selected("none", <<>>)
          [] OTHER -> Selected("TypeError", <<>>)   \* "all" in None

\* the next position of the update loop, from position k on, whose sheet
\* exists (if sheet_name not in sheets: continue)
RECURSIVE NextTarget(_, _, _)
NextTarget(ts, sh, k) ==
    IF k > Len(ts) \/ InSheets(sh, ts[k]) THEN k ELSE NextTarget(ts, sh, k + 1)

Stepped(sh, res) == [sheets |-> sh, results |-> res]

\* ---- mutant of update_step: every snippet that ran without error counts
\* as having processed its sheet, whatever it left in result ----
update_step_any_result(sh, res, name, out) ==
    IF out.ret.ok
    THEN IF out.ret.result.t = "table"
         THEN Stepped([sh EXCEPT ![SheetIdx(sh, name)].df = out.ret.result.ref],
                      [res EXCEPT !.sheets_processed = Append(@, name)])
         ELSE Stepped(sh, [res EXCEPT !.sheets_processed = Append(@, name)])
    ELSE Stepped(sh,
                 [res EXCEPT !.errors = Append(@, ErrorEntry("Error in", name, out.ret.error))])

\* lines 404-417: what the update loop does with exec_result
update_step(sh, res, name, out) ==
    IF out.ret.ok
    THEN IF out.ret.result.t = "table"
         THEN Stepped([sh EXCEPT ![SheetIdx(sh, name)].df = out.ret.result.ref],
                      [res EXCEPT !.sheets_processed = Append(@, name)])
         ELSE Stepped(sh, res)
    ELSE Stepped(sh,
                 [res EXCEPT !.errors = Append(@, ErrorEntry("Error in", name, out.ret.error))])

\* results["new_sheets"][name] = df
PutSheet(new, name, ref) ==
    IF \E i \in 1..Len(new) : new[i].name = name
    THEN [i \in 1..Len(new) |-> IF new[i].name = name
                                THEN [name |-> name, df |-> ref] ELSE new[i]]
    ELSE Append(new, [name |-> name, df |-> ref])

\* lines 369-380: what the create branch does with exec_result
create_step(res, out) ==
    IF out.ret.ok /\ out.ret.new_df # PyNone
    THEN [res EXCEPT !.new_sheets =
             PutSheet(@, IF out.ret.new_sheet_name # "" THEN out.ret.new_sheet_name
                         ELSE "NewSheet_timestamp",
                      out.ret.new_df.ref)]
    ELSE [res EXCEPT !.errors =
             Append(@, ErrorEntry("Failed to create new sheet", "",
                                  IF out.ret.ok THEN "Unknown error" ELSE out.ret.error))]

\* lines 436-446: what the query branch does with exec_result
query_step(res, out) ==
    IF out.ret.ok THEN [res EXCEPT !.query_result = TRUE]
    ELSE [res EXCEPT !.errors = Append(@, ErrorEntry("", "", out.ret.error))]

(***************************************************************************)
(* Persistence: the names of the files written and what is written.        *)
(***************************************************************************)
\* the clock has instants finer than a second
TicksPerSecond == 2

\* datetime.now().strftime("%Y%m%d_%H%M%S"): the instant cut to its second,
\* as text; one piece of text more for every second after the first
Stamp(now) ==
    <<"20260101_000000">> \o [i \in 1..(now \div TicksPerSecond) |-> "+1s"]

\* a file: its directory and its name
FileId(dir, name) == [dir |-> dir, name |-> name]

\* the file the path argument names
SourceFile(p) == FileId(p.dir, p.stem \o (IF p.ext = "" THEN <<>> ELSE <<p.ext>>))

\* os.path.join(dirname, f"{name}_updated_{timestamp}.xlsx")
UpdatedPath(p, now) ==
    FileId(p.dir, p.stem \o <<"_updated_">> \o Stamp(now) \o <<".xlsx">>)

\* os.path.join(dirname, f"{name}_result_{timestamp}.xlsx")
ResultPath(p, now) ==
    FileId(p.dir, p.stem \o <<"_result_">> \o Stamp(now) \o <<".xlsx">>)

\* os.path.join("results", f"query_result_{timestamp}.json")
QueryOutputPath(now) ==
    FileId("results", <<"query_result_">> \o Stamp(now) \o <<".json">>)

NamedTable(name, t) == [name |-> name, table |-> t]

\* df.to_excel(writer, sheet_name=..., index=False) for each table in turn;
\* a name written a second time lands on the worksheet of that name
RECURSIVE WriteSheets(_, _, _)
WriteSheets(entries, i, wb) ==
    IF i > Len(entries) THEN wb
    ELSE WriteSheets(entries, i + 1,
            IF \E k \in 1..Len(wb) : wb[k].name = entries[i].name
            THEN [k \in 1..Len(wb) |->
                     IF wb[k].name = entries[i].name THEN entries[i] ELSE wb[k]]
            ELSE Append(wb, entries[i]))

\* one write: who wrote, for which input file, to which file, what
FileWrite(by, src, out, wb) == [by |-> by, src |-> src, path |-> out, sheets |-> wb]

Saved(raised, writes) == [raised |-> raised, writes |-> writes]

\* ---- mutant of save_updated_excel: the row index is written as a column ----
save_updated_excel_with_index(p, sheets_data, new_sheets, now, fails) ==
    IF fails THEN Saved("OSError", <<>>)
    ELSE LET all == sheets_data \o new_sheets
             indexed == [i \in 1..Len(all) |->
                            NamedTable(all[i].name,
                               Table(<<"Unnamed: 0">> \o all[i].table.columns,
                                     [r \in 1..Len(all[i].table.rows) |->
                                         <<r - 1>> \o all[i].table.rows[r]]))]
         IN  Saved("none", <<FileWrite("save_updated_excel", SourceFile(p),
                                       UpdatedPath(p, now),
                                       WriteSheets(indexed, 1, <<>>))>>)

\* ---- mutant of save_updated_excel: the workbook is written back to path ----
save_updated_excel_in_place(p, sheets_data, new_sheets, now, fails) ==
    IF fails THEN Saved("OSError", <<>>)
    ELSE Saved("none", <<FileWrite("save_updated_excel", SourceFile(p), SourceFile(p),
                                   WriteSheets(sheets_data \o new_sheets, 1, <<>>))>>)

\* save_updated_excel(path, sheets_data, new_sheets) called at instant now;
\* fails says the write raises, which the except clause prints and re-raises
save_updated_excel(p, sheets_data, new_sheets, now, fails) ==
    IF fails THEN Saved("OSError", <<>>)
    ELSE Saved("none", <<FileWrite("save_updated_excel", SourceFile(p),
                                   UpdatedPath(p, now),
                                   WriteSheets(sheets_data \o new_sheets, 1, <<>>))>>)

\* exceltool.save_result_to_excel(result, base_path, query); nothing is caught
save_result_to_excel(result_table, p, now, fails) ==
    IF fails THEN Saved("OSError", <<>>)
    ELSE Saved("none", <<FileWrite("save_result_to_excel", SourceFile(p),
                                   ResultPath(p, now),
                                   <<NamedTable("QueryResult", result_table)>>)>>)

\* exceltool.save_query_output(query, code, result); nothing is caught
save_query_output(p, now, fails) ==
    IF fails THEN Saved("OSError", <<>>)
    ELSE Saved("none", <<FileWrite("save_query_output", SourceFile(p),
                                   QueryOutputPath(now), <<>>)>>)

\* ---- mutant of save_step: a failed save is passed over in silence ----
save_step_swallows_failure(res, raised) ==
    IF raised = "none" THEN [res EXCEPT !.saved = TRUE] ELSE res

\* lines 452-457: what process_query_all_sheets does with the save's outcome
save_step(res, raised) ==
    IF raised = "none" THEN [res EXCEPT !.saved = TRUE]
    ELSE [res EXCEPT !.errors = Append(@, ErrorEntry("Failed to save file", "", raised))]

\* the loader's outcome as the run keeps it
LoadOutcome(r) ==
    [called |-> TRUE, raised |-> r.raised, msg |-> r.msg, sheet_names |-> r.sheet_names]
LoadNotCalled == [called |-> FALSE, raised |-> "none", msg |-> "", sheet_names |-> <<>>]

RunIdle ==
    /\ variant = "v2"
    /\ path = Path(TRUE, FALSE, "")
    /\ book = Book(<<>>, <<>>)
    /\ pc = "idle"
    /\ sheets = <<>>
    /\ sheet_names = <<>>
    /\ results = NoResults
    /\ targets = <<>>
    /\ cur = 0
    /\ returned = "none"
    /\ escaped = "none"
    /\ log = <<>>
    /\ credential = TRUE
    /\ load_out = LoadNotCalled
    /\ clock = 0
    /\ files = <<>>

\* genai.configure(api_key=GEMINI_API_KEY) takes None without complaint;
\* a model call can give a response only when the key was set
ModelCallPossible(answered) == answered => credential

\* An exception raised inside process_query_all_sheets reaches the try of
\* excelagent-2.interactive_loop: "except Exception" turns it into the
\* returned "Fatal error" message, anything else leaves interactive_loop.
AbortV2(e) ==
    /\ pc' = "done"
    /\ returned' = IF IsException(e) THEN "fatal" ELSE "none"
    /\ escaped' = IF IsException(e) THEN "none" ELSE e

\* exceltool.interactive_loop has no try: every exception leaves it.
AbortTool(e) ==
    /\ pc' = "done"
    /\ returned' = "none"
    /\ escaped' = e

\* ---- mutant of Start: the classifier is asked before the file is loaded ----
Start_classifies_first ==
    /\ pc = "start"
    /\ IF path.blank
       THEN pc' = "done" /\ returned' = "no_path"
       ELSE IF IsExitCommand(user_query)
       THEN pc' = "done" /\ returned' = "goodbye"
       ELSE pc' = (IF variant = "v2" THEN "classify" ELSE "tool_load")
            /\ returned' = returned
    /\ UNCHANGED <<load_out, files>>
    /\ UNCHANGED <<credential, clock, variant, path, book, sheets, sheet_names, results,
                   targets, cur, escaped, log>>
    /\ UNCHANGED <<resolverVars, executorVars, classifierVars>>

\* interactive_loop, both copies, up to the try / the call of
\* answer_excel_question
Start ==
    /\ pc = "start"
    /\ IF path.blank
       THEN pc' = "done" /\ returned' = "no_path"
       ELSE IF IsExitCommand(user_query)
       THEN pc' = "done" /\ returned' = "goodbye"
       ELSE pc' = (IF variant = "v2" THEN "load" ELSE "tool_load")
            /\ returned' = returned
    /\ UNCHANGED <<load_out, files>>
    /\ UNCHANGED <<credential, clock, variant, path, book, sheets, sheet_names, results, targets, cur,
                   escaped, log>>
    /\ UNCHANGED <<resolverVars, executorVars, classifierVars>>

\* process_query_all_sheets: all_data = load_all_sheets(path)
Load ==
    /\ pc = "load"
    /\ LET r == load_all_sheets(path, book, heap) IN
       /\ load_out' = LoadOutcome(r)
       /\ log' = Append(log, Event("load", "", r.raised = "none"))
       /\ IF r.raised # "none"
          THEN AbortV2(r.raised) /\ UNCHANGED <<heap, sheets, sheet_names>>
          ELSE /\ heap' = r.heap
               /\ sheets' = r.sheets
               /\ sheet_names' = r.sheet_names
               /\ pc' = "classify"
               /\ UNCHANGED <<returned, escaped>>
    /\ UNCHANGED files
    /\ UNCHANGED <<credential, clock, variant, path, book, results, targets, cur>>
    /\ UNCHANGED <<resolverVars, classifierVars, given, caller_df, code, exV2, exTool>>

\* intent_info = detect_query_intent(user_query), the two prints that read
\* it, and the results record
Classify ==
    /\ pc = "classify"
    /\ \E resp \in RunResponses :
          /\ ModelCallPossible(resp # ApiError)
          /\ LET o == detect_query_intent(user_query, resp)
                 rd == IF o.propagated # "none" THEN o.propagated ELSE ReadIntent(o.ret)
             IN  /\ response' = resp
                 /\ intent' = o
                 /\ log' = Append(log, Event("classify", "", o.propagated = "none"))
                 /\ IF rd # "none"
                    THEN AbortV2(rd) /\ UNCHANGED results
                    ELSE /\ results' = NewResults(Get(o.ret, "intent"))
                         /\ pc' = "dispatch"
                         /\ UNCHANGED <<returned, escaped>>
    /\ UNCHANGED <<load_out, files>>
    /\ UNCHANGED <<credential, clock, variant, path, book, sheets, sheet_names,
                   targets, cur, user_query, body, fence, generated>>
    /\ UNCHANGED <<resolverVars, executorVars>>

\* the branch on intent_info["intent"], with the update branch's choice of
\* sheets_to_update and the query branch's choice of target_sheet
Dispatch ==
    /\ pc = "dispatch"
    /\ IF results.intent = JStr("create_new_sheet")
       THEN pc' = "gen_new" /\ UNCHANGED <<targets, cur, returned, escaped>>
       ELSE IF results.intent = JStr("update_existing")
       THEN LET sel == select_targets(intent.ret, sheet_names) IN
            IF sel.raised # "none"
            THEN AbortV2(sel.raised) /\ UNCHANGED <<targets, cur>>
            ELSE /\ targets' = sel.names
                 /\ cur' = NextTarget(sel.names, sheets, 1)
                 /\ pc' = (IF cur' > Len(sel.names) THEN "save" ELSE "gen_update")
                 /\ UNCHANGED <<returned, escaped>>
       ELSE /\ pc' = (IF sheet_names # <<>> THEN "gen_query" ELSE "save")
            /\ UNCHANGED <<targets, cur, returned, escaped>>
    /\ UNCHANGED <<load_out, files>>
    /\ UNCHANGED <<credential, clock, variant, path, book, sheets, sheet_names, results, log>>
    /\ UNCHANGED <<resolverVars, executorVars, classifierVars>>

\* a generator call of the run at position here: the code is kept and the
\* run goes on at position there, or the API call raises
Generate(here, there, sheet) ==
    /\ pc = here
    /\ \E g \in GenOutcomes :
          /\ ModelCallPossible(g.ok)
          /\ log' = Append(log, Event("generate", sheet, g.ok))
          /\ IF g.ok
             THEN code' = g.code /\ pc' = there /\ UNCHANGED <<returned, escaped>>
             ELSE AbortV2("APIError") /\ UNCHANGED code
    /\ UNCHANGED <<load_out, files>>
    /\ UNCHANGED <<credential, clock, variant, path, book, sheets, sheet_names, results, targets, cur>>
    /\ UNCHANGED <<resolverVars, classifierVars, heap, given, caller_df, exV2, exTool>>

\* code = generate_new_sheet_code(user_query, sheets, path)
GenNew == Generate("gen_new", "exec_new", "")

\* code = generate_update_code(columns, preview, user_query, sheet_name, sheets)
GenUpdate == pc = "gen_update" /\ Generate("gen_update", "exec_update", targets[cur])

\* code = generate_query_code(columns, preview, user_query, target_sheet)
GenQuery == pc = "gen_query" /\ Generate("gen_query", "exec_query", sheet_names[1])

\* exec_result = execute_snippet(pd.DataFrame(), code) and lines 369-380
ExecNew ==
    /\ pc = "exec_new"
    /\ LET h0 == Append(heap, EmptyTable)
           r == execute_snippet_v2(h0, Len(h0), code)
       IN  /\ heap' = r.heap
           /\ exV2' = r.out
           /\ log' = Append(log, ExecEvent("", r.out.ret.ok, code))
           /\ IF r.out.propagated # "none"
              THEN AbortV2(r.out.propagated) /\ UNCHANGED results
              ELSE /\ results' = create_step(results, r.out)
                   /\ pc' = "save"
                   /\ UNCHANGED <<returned, escaped>>
    /\ UNCHANGED <<load_out, files>>
    /\ UNCHANGED <<credential, clock, variant, path, book, sheets, sheet_names, targets, cur>>
    /\ UNCHANGED <<resolverVars, classifierVars, given, caller_df, code, exTool>>

\* exec_result = execute_snippet(df, code) for the loop's sheet, lines
\* 404-417, and the loop's advance to its next existing sheet
ExecUpdate ==
    /\ pc = "exec_update"
    /\ LET name == targets[cur]
           r == execute_snippet_v2(heap, sheets[SheetIdx(sheets, name)].df, code)
           u == update_step(sheets, results, name, r.out)
           k == NextTarget(targets, sheets, cur + 1)
       IN  /\ heap' = r.heap
           /\ exV2' = r.out
           /\ log' = Append(log, ExecEvent(name, r.out.ret.ok, code))
           /\ IF r.out.propagated # "none"
              THEN AbortV2(r.out.propagated) /\ UNCHANGED <<sheets, results, cur>>
              ELSE /\ sheets' = u.sheets
                   /\ results' = u.results
                   /\ cur' = k
                   /\ pc' = (IF k > Len(targets) THEN "save" ELSE "gen_update")
                   /\ UNCHANGED <<returned, escaped>>
    /\ UNCHANGED <<load_out, files>>
    /\ UNCHANGED <<credential, clock, variant, path, book, sheet_names, targets>>
    /\ UNCHANGED <<resolverVars, classifierVars, given, caller_df, code, exTool>>

\* exec_result = execute_snippet(df, code) for the first sheet and lines
\* 436-446
ExecQuery ==
    /\ pc = "exec_query"
    /\ LET r == execute_snippet_v2(heap, sheets[SheetIdx(sheets, sheet_names[1])].df, code)
       IN  /\ heap' = r.heap
           /\ exV2' = r.out
           /\ log' = Append(log, ExecEvent(sheet_names[1], r.out.ret.ok, code))
           /\ IF r.out.propagated # "none"
              THEN AbortV2(r.out.propagated) /\ UNCHANGED results
              ELSE /\ results' = query_step(results, r.out)
                   /\ pc' = "save"
                   /\ UNCHANGED <<returned, escaped>>
    /\ UNCHANGED <<load_out, files>>
    /\ UNCHANGED <<credential, clock, variant, path, book, sheets, sheet_names, targets, cur>>
    /\ UNCHANGED <<resolverVars, classifierVars, given, caller_df, code, exTool>>

\* ---- mutant of Save: the workbook is written whether or not the run
\* changed anything ----
Save_unconditional ==
    /\ pc = "save"
    /\ IF TRUE
       THEN \E fails \in BOOLEAN :
               LET updated_sheets ==
                      [i \in 1..Len(sheet_names) |->
                          NamedTable(sheet_names[i],
                                     heap[sheets[SheetIdx(sheets, sheet_names[i])].df])]
                   new_tables ==
                      [i \in 1..Len(results.new_sheets) |->
                          NamedTable(results.new_sheets[i].name,
                                     heap[results.new_sheets[i].df])]
                   r == save_updated_excel(path, updated_sheets, new_tables, clock, fails)
               IN  /\ log' = Append(log, Event("save", "", r.raised = "none"))
                   /\ files' = files \o r.writes
                   /\ results' = save_step(results, r.raised)
       ELSE UNCHANGED <<log, results, files>>
    /\ pc' = "summary"
    /\ UNCHANGED load_out
    /\ UNCHANGED <<credential, clock, variant, path, book, sheets, sheet_names, targets, cur,
                   returned, escaped>>
    /\ UNCHANGED <<resolverVars, executorVars, classifierVars>>

\* lines 448-457: the save step; the write succeeds or raises
Save ==
    /\ pc = "save"
    /\ IF results.sheets_processed # <<>> \/ results.new_sheets # <<>>
       THEN \E fails \in BOOLEAN :
               LET updated_sheets ==
                      [i \in 1..Len(sheet_names) |->
                          NamedTable(sheet_names[i],
                                     heap[sheets[SheetIdx(sheets, sheet_names[i])].df])]
                   new_tables ==
                      [i \in 1..Len(results.new_sheets) |->
                          NamedTable(results.new_sheets[i].name,
                                     heap[results.new_sheets[i].df])]
                   r == save_updated_excel(path, updated_sheets, new_tables, clock, fails)
               IN  /\ log' = Append(log, Event("save", "", r.raised = "none"))
                   /\ files' = files \o r.writes
                   /\ results' = save_step(results, r.raised)
       ELSE UNCHANGED <<log, results, files>>
    /\ pc' = "summary"
    /\ UNCHANGED load_out
    /\ UNCHANGED <<credential, clock, variant, path, book, sheets, sheet_names, targets, cur,
                   returned, escaped>>
    /\ UNCHANGED <<resolverVars, executorVars, classifierVars>>

\* interactive_loop builds the summary from results and returns it
Summary ==
    /\ pc = "summary"
    /\ pc' = "done"
    /\ returned' = "summary"
    /\ UNCHANGED <<load_out, files>>
    /\ UNCHANGED <<credential, clock, variant, path, book, sheets, sheet_names, results, targets, cur,
                   escaped, log>>
    /\ UNCHANGED <<resolverVars, executorVars, classifierVars>>

\* answer_excel_question: tool_out = load_excel_or_csv(path, sheet_name)
ToolLoad ==
    /\ pc = "tool_load"
    /\ \E typed \in {"", "Sheet2", "NoSuchSheet"} :
          LET r == load_excel_or_csv(path, book, heap, typed) IN
          /\ load_out' = LoadOutcome(r)
          /\ log' = Append(log, Event("load", "", r.raised = "none"))
          /\ IF r.raised # "none"
             THEN AbortTool(r.raised) /\ UNCHANGED <<heap, sheets, sheet_names>>
             ELSE /\ heap' = r.heap
                  /\ sheets' = r.sheets
                  /\ sheet_names' = r.sheet_names
                  /\ pc' = "tool_gen"
                  /\ UNCHANGED <<returned, escaped>>
    /\ UNCHANGED files
    /\ UNCHANGED <<credential, clock, variant, path, book, results, targets, cur>>
    /\ UNCHANGED <<resolverVars, classifierVars, given, caller_df, code, exV2, exTool>>

\* answer_excel_question: code = generate_code(columns, preview, ...)
ToolGenerate ==
    /\ pc = "tool_gen"
    /\ \E g \in GenOutcomes :
          /\ ModelCallPossible(g.ok)
          /\ log' = Append(log, Event("generate", sheet_names[1], g.ok))
          /\ IF g.ok
             THEN code' = g.code /\ pc' = "tool_exec" /\ UNCHANGED <<returned, escaped>>
             ELSE AbortTool("APIError") /\ UNCHANGED code
    /\ UNCHANGED <<load_out, files>>
    /\ UNCHANGED <<credential, clock, variant, path, book, sheets, sheet_names, results, targets, cur>>
    /\ UNCHANGED <<resolverVars, classifierVars, heap, given, caller_df, exV2, exTool>>

\* answer_excel_question: exec_out = execute_snippet(df, code), and the
\* branch of interactive_loop on exec_out["ok"]
ToolExecute ==
    /\ pc = "tool_exec"
    /\ LET r == execute_snippet_tool(heap, sheets[1].df, code) IN
       /\ heap' = r.heap
       /\ exTool' = r.out
       /\ log' = Append(log, ExecEvent(sheet_names[1], r.out.ret.ok, code))
       /\ IF r.out.propagated # "none"
          THEN AbortTool(r.out.propagated)
          ELSE IF r.out.ret.ok
          THEN pc' = "tool_save" /\ UNCHANGED <<returned, escaped>>
          ELSE pc' = "done" /\ returned' = "printed" /\ UNCHANGED escaped
    /\ UNCHANGED <<load_out, files>>
    /\ UNCHANGED <<credential, clock, variant, path, book, sheets, sheet_names, results, targets, cur>>
    /\ UNCHANGED <<resolverVars, classifierVars, given, caller_df, code, exV2>>

\* save_query_output and save_result_to_excel; a write succeeds or raises
ToolSave ==
    /\ pc = "tool_save"
    /\ \E fails1 \in BOOLEAN, fails2 \in BOOLEAN :
          LET result == exTool.ret.result
              w1 == save_query_output(path, clock, fails1)
              w2 == save_result_to_excel(
                        IF result.t = "records" THEN heap[result.ref]
                        ELSE Table(<<"result">>, << <<0>> >>),
                        path, clock, fails2)
          IN  /\ log' = Append(log, Event("save", "", w1.raised = "none" /\ w2.raised = "none"))
              /\ IF w1.raised # "none"
                 THEN AbortTool(w1.raised) /\ UNCHANGED <<results, files>>
                 ELSE IF w2.raised # "none"
                 THEN AbortTool(w2.raised) /\ files' = files \o w1.writes
                                          /\ UNCHANGED results
                 ELSE /\ pc' = "done"
                      /\ returned' = "printed"
                      /\ results' = [results EXCEPT !.saved = TRUE]
                      /\ files' = files \o w1.writes \o w2.writes
                      /\ UNCHANGED escaped
    /\ UNCHANGED load_out
    /\ UNCHANGED <<credential, clock, variant, path, book, sheets, sheet_names, targets, cur>>
    /\ UNCHANGED <<resolverVars, executorVars, classifierVars>>

(***************************************************************************)
(* Specifications: one per component, each drawing its inputs in Init.     *)
(***************************************************************************)
InitResolver ==
    /\ header \in Headers
    /\ term \in Terms
    /\ fcV2 = NotCalled
    /\ fcTool = NotCalled
    /\ ExecutorIdle
    /\ ClassifierIdle
    /\ RunIdle

InitExecutor ==
    /\ given \in Tables
    /\ heap = <<given>>
    /\ caller_df = 1
    /\ code \in Snippets
    /\ exV2 = ExecNotCalled
    /\ exTool = ExecNotCalled
    /\ ResolverIdle
    /\ ClassifierIdle
    /\ RunIdle

NextResolver == CallFindColumnV2 \/ CallFindColumnTool

SpecResolver == InitResolver /\ [][NextResolver]_vars

InitClassifier ==
    /\ user_query \in UserQueries
    /\ response \in Responses
    /\ intent = IntentNotCalled
    /\ body = <<>>
    /\ fence = "none"
    /\ generated = GeneratorNotCalled
    /\ ResolverIdle
    /\ ExecutorIdle
    /\ RunIdle

NextClassifier == CallDetectQueryIntent

SpecClassifier == InitClassifier /\ [][NextClassifier]_vars

\* the model's response is a body wrapped one way or another; the
\* classifier and a generator are each run on it
InitFences ==
    /\ user_query \in UserQueries
    /\ body \in Bodies
    /\ fence \in {"none", "bare", "python", "json"}
    /\ response \in {TextResponse(w, "wrapped") : w \in WrappedAs(body, fence)}
    /\ intent = IntentNotCalled
    /\ generated = GeneratorNotCalled
    /\ ResolverIdle
    /\ ExecutorIdle
    /\ RunIdle

CallGenerator ==
    /\ ~generated.called
    /\ generated' = generator_tail(response)
    /\ UNCHANGED <<user_query, response, intent, body, fence>>
    /\ UNCHANGED <<resolverVars, executorVars, runVars>>

NextFences == CallDetectQueryIntent \/ CallGenerator

SpecFences == InitFences /\ [][NextFences]_vars

\* the input paths the save functions are called with: a workbook, a csv
\* file, a workbook that an earlier run wrote, a file without extension in
\* the current directory
SavePaths ==
    { Path(FALSE, TRUE, ".xlsx"),
      Path(FALSE, TRUE, ".csv"),
      PathNamed("data", <<"book", "_updated_", "20260101_000000">>, ".xlsx"),
      PathNamed("", <<"book">>, "") }

\* save calls one after another, the clock moving or not between them
InitPersist ==
    /\ path \in SavePaths
    /\ clock = 0
    /\ files = <<>>
    /\ variant = "v2"
    /\ book = Book(<<>>, <<>>)
    /\ pc = "idle"
    /\ sheets = <<>>
    /\ sheet_names = <<>>
    /\ results = NoResults
    /\ targets = <<>>
    /\ cur = 0
    /\ returned = "none"
    /\ escaped = "none"
    /\ log = <<>>
    /\ credential = TRUE
    /\ load_out = LoadNotCalled
    /\ ResolverIdle
    /\ ExecutorIdle
    /\ ClassifierIdle

PersistUnchanged ==
    /\ UNCHANGED <<clock, variant, book, pc, sheets, sheet_names, results, targets, cur,
                   returned, escaped, log, credential, load_out>>
    /\ UNCHANGED <<resolverVars, executorVars, classifierVars>>

CallSaveUpdatedExcel ==
    /\ Len(files) < MaxWrites
    /\ \E p \in SavePaths, tb \in RunTables, fails \in BOOLEAN :
          /\ path' = p
          /\ files' = files \o save_updated_excel(p, <<NamedTable("Sheet1", tb)>>, <<>>,
                                                  clock, fails).writes
    /\ PersistUnchanged

CallSaveResultToExcel ==
    /\ Len(files) < MaxWrites
    /\ \E p \in SavePaths, tb \in RunTables, fails \in BOOLEAN :
          /\ path' = p
          /\ files' = files \o save_result_to_excel(tb, p, clock, fails).writes
    /\ PersistUnchanged

CallSaveQueryOutput ==
    /\ Len(files) < MaxWrites
    /\ \E p \in SavePaths, fails \in BOOLEAN :
          /\ path' = p
          /\ files' = files \o save_query_output(p, clock, fails).writes
    /\ PersistUnchanged

\* time passes
Tick ==
    /\ clock < MaxTicks
    /\ clock' = clock + 1
    /\ UNCHANGED <<path, files, variant, book, pc, sheets, sheet_names, results, targets,
                   cur, returned, escaped, log, credential, load_out>>
    /\ UNCHANGED <<resolverVars, executorVars, classifierVars>>

NextPersist ==
    CallSaveUpdatedExcel \/ CallSaveResultToExcel \/ CallSaveQueryOutput \/ Tick

SpecPersist == InitPersist /\ [][NextPersist]_vars

\* a multi-sheet workbook is drawn only where a workbook is read
InitRun ==
    /\ variant \in {"v2", "tool"}
    /\ path \in Paths
    /\ book \in Books
    /\ (Len(book.names) > 1 => (path.exists /\ LowerExt(path.ext) \in {".xls", ".xlsx"}))
    /\ user_query \in RunQueries
    /\ response = ApiError
    /\ intent = IntentNotCalled
    /\ body = <<>>
    /\ fence = "none"
    /\ generated = GeneratorNotCalled
    /\ pc = "start"
    /\ heap = <<>>
    /\ given = EmptyTable
    /\ caller_df = 0
    /\ code = <<>>
    /\ exV2 = ExecNotCalled
    /\ exTool = ExecNotCalled
    /\ sheets = <<>>
    /\ sheet_names = <<>>
    /\ results = NoResults
    /\ targets = <<>>
    /\ cur = 0
    /\ returned = "none"
    /\ escaped = "none"
    /\ log = <<>>
    /\ credential \in BOOLEAN
    /\ load_out = LoadNotCalled
    /\ clock = 0
    /\ files = <<>>
    /\ ResolverIdle

NextRun ==
    \/ Start \/ Load \/ Classify \/ Dispatch
    \/ GenNew \/ ExecNew \/ GenUpdate \/ ExecUpdate \/ GenQuery \/ ExecQuery
    \/ Save \/ Summary
    \/ ToolLoad \/ ToolGenerate \/ ToolExecute \/ ToolSave

SpecRun == InitRun /\ [][NextRun]_vars

NextExecutor == CallExecuteSnippetV2 \/ CallExecuteSnippetTool

SpecExecutor == InitExecutor /\ [][NextExecutor]_vars

(***************************************************************************)
(* Properties of the Column Resolver                                       *)
(***************************************************************************)
Min(S) == CHOOSE m \in S : \A k \in S : m <= k

\* columns whose normalized name equals the normalized term
ExactIdx == {i \in 1..Len(header) : Normalize(Str(header[i])) = Normalize(term.s)}
\* columns whose normalized name contains the normalized term
TermInColIdx ==
    {i \in 1..Len(header) : IsSubstring(Normalize(term.s), Normalize(Str(header[i])))}
\* columns whose normalized name is contained in the normalized term
ColInTermIdx ==
    {i \in 1..Len(header) : IsSubstring(Normalize(Str(header[i])), Normalize(term.s))}
BothWaysIdx == TermInColIdx \cup ColInTermIdx

\* C7: two search terms that are equal after lower-casing and removing
\* spaces and underscores get the same answer from find_column (the same
\* column, or None for both), whatever the header row; in both copies.
C7_VariantsResolveAlike ==
    \A t2 \in Terms :
        (term.kind = "str" /\ t2.kind = "str" /\ Normalize(t2.s) = Normalize(term.s))
        => /\ fcV2.called => fcV2 = find_column_v2(header, t2)
           /\ fcTool.called => fcTool = find_column_tool(header, t2)

\* a resolved column for a term that has a different spelling of the same
\* normalized text
C7_Witness ==
    /\ fcV2.called /\ fcV2.exc = "none" /\ fcV2.val # None
    /\ term.kind = "str"
    /\ \E t2 \in Terms : t2.kind = "str" /\ t2 # term
                         /\ Normalize(t2.s) = Normalize(term.s)
                         /\ Len(Normalize(term.s)) > 0

\* C8: find_column is two-pass, first match wins: when some column matches
\* exactly the first such column in header order is returned, even if an
\* earlier column matches by substring; only without an exact match the
\* first column in header order passing the substring test is returned
\* (the substring test of each copy: either direction in excelagent-2,
\* term-in-column in exceltool).
C8_TwoPassFirstMatch ==
    term.kind = "str" =>
        /\ fcV2.called =>
             /\ ExactIdx # {} => fcV2 = Returned(header[Min(ExactIdx)])
             /\ (ExactIdx = {} /\ BothWaysIdx # {})
                   => fcV2 = Returned(header[Min(BothWaysIdx)])
        /\ fcTool.called =>
             /\ ExactIdx # {} => fcTool = Returned(header[Min(ExactIdx)])
             /\ (ExactIdx = {} /\ TermInColIdx # {})
                   => fcTool = Returned(header[Min(TermInColIdx)])

\* an exact match in the second column wins over a substring match in the first
C8_Witness ==
    /\ fcV2.called /\ term.kind = "str"
    /\ ExactIdx # {} /\ Min(ExactIdx) > 1
    /\ 1 \in BothWaysIdx
    /\ fcV2.val = header[Min(ExactIdx)]
    /\ header[1] # header[Min(ExactIdx)]

\* C9: with no exact match, the second pass accepts a column in both
\* directions: the term inside the column name, and the column name inside
\* the term; stated of both copies of find_column.
C9_SecondPassBothDirections ==
    (term.kind = "str" /\ ExactIdx = {} /\ BothWaysIdx # {})
    => /\ fcV2.called => fcV2 = Returned(header[Min(BothWaysIdx)])
       /\ fcTool.called => fcTool = Returned(header[Min(BothWaysIdx)])

\* C10: when no column matches the search string, exactly or by the copy's
\* substring test, find_column returns None and raises nothing; the header
\* row may be empty or hold numeric or empty labels.
C10_MissReturnsNone ==
    term.kind = "str" =>
        /\ (fcV2.called /\ ExactIdx = {} /\ BothWaysIdx = {})
              => fcV2 = Returned(None)
        /\ (fcTool.called /\ ExactIdx = {} /\ TermInColIdx = {})
              => fcTool = Returned(None)

\* a miss on a header row that holds a numeric label
C10_Witness ==
    /\ fcV2.called /\ fcTool.called /\ term.kind = "str"
    /\ \E i \in 1..Len(header) : header[i].kind = "int"
    /\ ExactIdx = {} /\ BothWaysIdx = {}
    /\ fcV2.val = None

(***************************************************************************)
(* Properties of the Snippet Executor                                      *)
(***************************************************************************)
\* C1: whenever the snippet raises any condition at all, an exit request
\* included, execute_snippet returns a record with ok = false that carries
\* the error message and the trace, and nothing propagates to its caller;
\* in both copies.
C1_AnyConditionBecomesRecord ==
    /\ (exV2.called /\ exV2.snippet_exc # "none")
          => /\ exV2.propagated = "none"
             /\ exV2.ret.ok = FALSE
             /\ exV2.ret.error = exV2.snippet_exc
             /\ exV2.ret.traceback # ""
    /\ (exTool.called /\ exTool.snippet_exc # "none")
          => /\ exTool.propagated = "none"
             /\ exTool.ret.ok = FALSE
             /\ exTool.ret.error = exTool.snippet_exc
             /\ exTool.ret.traceback # ""

\* C2: after any call of execute_snippet (the snippet succeeding, raising
\* part-way, or editing its df in place) the table the caller passed in has
\* the columns and rows it had at the call.
C2_CallerTableUntouched ==
    (exV2.called \/ exTool.called) => heap[caller_df] = given

\* a snippet that edited its df in place and then raised
C2_Witness ==
    /\ exV2.called
    /\ exV2.snippet_exc \in ExceptionClasses
    /\ heap[exV2.local_df] # given
    /\ heap[caller_df] = given

(***************************************************************************)
(* Properties of the Intent Classifier                                     *)
(***************************************************************************)
\* C3: for every response text that is not parseable as JSON once the
\* fence markers are stripped (prose, a truncated JSON text, the empty
\* text, bare or fenced), detect_query_intent returns the fallback record
\* {intent: query_data, target_sheets: null, new_sheet_name: null,
\* fields_to_update: null, description: the instruction} and raises nothing.
C3_MalformedGivesFallback ==
    (/\ intent.called
     /\ response.kind = "text"
     /\ \/ response.class \in {"truncated", "prose", "empty"}
        \/ ~JsonLoads(Cleaned(response.toks)).ok)
    => /\ intent.propagated = "none"
       /\ intent.ret = Fallback(user_query)

\* a fenced, truncated JSON text was answered with the fallback record
C3_Witness ==
    /\ intent.called
    /\ response.class = "truncated"
    /\ \E i \in 1..Len(response.toks) : response.toks[i] = Fence
    /\ Len(response.toks) > 6
    /\ intent.ret = Fallback(user_query)

\* C4: for every response text, malformed or well-formed JSON of any shape,
\* detect_query_intent returns an Intent Record: an object whose intent is
\* one of create_new_sheet, update_existing, query_data and that has a
\* description, so that process_query_all_sheets can read both.
C4_AlwaysDefiniteIntent ==
    (intent.called /\ response.kind = "text")
    => /\ intent.propagated = "none"
       /\ intent.ret.t = "obj"
       /\ HasKey(intent.ret, "intent")
       /\ Get(intent.ret, "intent").t = "str"
       /\ Get(intent.ret, "intent").s \in Intents
       /\ HasKey(intent.ret, "description")

(***************************************************************************)
(* The run                                                                 *)
(***************************************************************************)
\* C5: interactive_loop ends by reporting a summary or an error message to
\* its caller, whatever stage fails (loading, a model call, the snippet,
\* saving); no exception leaves interactive_loop.
C5_NoExceptionEscapes ==
    pc = "done" => (escaped = "none" /\ returned # "none")

(***************************************************************************)
(* Fence markers                                                           *)
(***************************************************************************)
\* C19: fence markers and surrounding whitespace are tolerated: for a body
\* free of the marker, wrapped or not in an opening fence (bare, or tagged
\* python for the generators, json for the classifier) and a closing fence,
\* with whitespace before and after, a generator returns exactly the
\* trimmed body and the classifier gives what it gives for the body alone.
C19_FencesTolerated ==
    /\ (generated.called /\ fence \in {"none", "bare", "python"}) =>
          (generated.propagated = "none" /\ generated.text = Strip(body))
    /\ (intent.called /\ fence \in {"none", "bare", "json"}) =>
          intent = detect_query_intent(user_query, TextResponse(body, "wrapped"))

\* a tagged, padded response went through a generator and through the classifier
C19_Witness ==
    /\ generated.called /\ intent.called
    /\ fence \in {"python", "json"}
    /\ Head(response.toks) = Ws
    /\ Strip(body) # body
    /\ response.toks # body

(***************************************************************************)
(* The loader and the order of the run's steps                             *)
(***************************************************************************)
\* extensions the loader takes, in either letter case
TableExtensions == {".csv", ".CSV", ".xls", ".XLS", ".xlsx", ".XLSX"}

\* C11: the loader fails with a not-found error for every path that does not
\* exist, whatever its extension, and with an unsupported-format error for
\* every existing path whose extension is, in any letter case, none of
\* .csv, .xls, .xlsx; neither returns a table.  An existing .csv path gives
\* exactly one sheet.
C11_LoaderErrors ==
    load_out.called =>
       /\ (~path.exists =>
              /\ load_out.raised = "FileNotFoundError" /\ load_out.msg = "File not found"
              /\ sheets = <<>> /\ load_out.sheet_names = <<>>)
       /\ ((path.exists /\ path.ext \notin TableExtensions) =>
              /\ load_out.raised = "ValueError" /\ load_out.msg = "Unsupported file type"
              /\ sheets = <<>> /\ load_out.sheet_names = <<>>)
       /\ ((path.exists /\ path.ext \in {".csv", ".CSV"}) =>
              /\ load_out.raised = "none"
              /\ Len(sheets) = 1 /\ Len(load_out.sheet_names) = 1)

\* a missing path with an extension the loader does not take was loaded
C11_Witness ==
    /\ load_out.called /\ ~path.exists /\ path.ext = ".txt"
    /\ load_out.raised = "FileNotFoundError"

ModelCalls == {i \in 1..Len(log) : log[i].ev \in {"classify", "generate"}}

\* C12: the input file is loaded before any model call: a classifier or
\* generator call comes after a successful load, and when the load fails
\* the run ends with the load error and neither has been called.
C12_LoadBeforeModelCalls ==
    /\ \A i \in ModelCalls : \E j \in 1..(i - 1) : log[j].ev = "load" /\ log[j].ok
    /\ (load_out.called /\ load_out.raised # "none") =>
          /\ ModelCalls = {}
          /\ ~intent.called
          /\ pc = "done"
          /\ (returned = "fatal" \/ escaped = load_out.raised)

\* a run on a missing or unsupported path has ended
C12_Witness ==
    /\ load_out.called /\ load_out.raised # "none" /\ pc = "done" /\ variant = "v2"

\* C20: when the API credential is absent from the environment the run stops
\* before any input file is loaded and before any model call is made.
C20_CredentialCheckedFirst ==
    ~credential => (sheets = <<>> /\ ModelCalls = {})

\* positions of the log where a sheet's snippet was executed
Executions(s) == {j \in 1..Len(log) : log[j].ev = "execute" /\ log[j].sheet = s}

UpdateRun == variant = "v2" /\ results.intent = JStr("update_existing")

\* position of a sheet in the workbook
SheetPos(name) == CHOOSE k \in 1..Len(sheet_names) : sheet_names[k] = name

SheetSteps == {i \in 1..Len(log) : log[i].ev \in {"generate", "execute"}}

\* the update run was told to update all sheets
AllSheetsTargeted ==
    /\ UpdateRun
    /\ pc \notin {"classify", "dispatch"}
    /\ intent.ret.t = "obj"
    /\ LET ts == IF HasKey(intent.ret, "target_sheets")
                 THEN Get(intent.ret, "target_sheets") ELSE JList(<<JStr("all")>>)
       IN  ts.t = "list" /\ \E i \in 1..Len(ts.kids) : ts.kids[i] = JStr("all")

\* C18: in an update run that targets all sheets the sheets are processed
\* one after another in workbook order: generation and execution for one
\* sheet are both over before generation for the next begins, and the one
\* save step comes only after the last sheet has been processed.
C18_SheetsInOrder ==
    AllSheetsTargeted =>
       /\ \A i \in SheetSteps :
             /\ \E k \in 1..Len(sheet_names) : sheet_names[k] = log[i].sheet
             /\ log[i].ev = "execute" =>
                   (i > 1 /\ log[i - 1].ev = "generate" /\ log[i - 1].ok
                          /\ log[i - 1].sheet = log[i].sheet)
             /\ (log[i].ev = "generate" /\ i < Len(log)) =>
                   (log[i].ok /\ log[i + 1].ev = "execute"
                              /\ log[i + 1].sheet = log[i].sheet)
       /\ \A i \in SheetSteps : \A j \in SheetSteps :
             (i < j /\ log[i].ev = log[j].ev) =>
                SheetPos(log[i].sheet) < SheetPos(log[j].sheet)
       /\ \A j \in SheetSteps :
             log[j].ev = "generate" =>
                IF j - 1 \in SheetSteps
                THEN /\ log[j - 1].ev = "execute"
                     /\ SheetPos(log[j].sheet) = SheetPos(log[j - 1].sheet) + 1
                ELSE SheetPos(log[j].sheet) = 1
       /\ Cardinality({i \in 1..Len(log) : log[i].ev = "save"}) <= 1
       /\ \A i \in 1..Len(log) : log[i].ev = "save" =>
             /\ i = Len(log)
             /\ \A k \in 1..Len(sheet_names) : Executions(sheet_names[k]) # {}

\* both sheets of a workbook were processed and the save step was taken
C18_Witness ==
    /\ AllSheetsTargeted /\ Len(sheet_names) = 2
    /\ \E i \in 1..Len(log) : log[i].ev = "save"
    /\ Executions(sheet_names[1]) # {} /\ Executions(sheet_names[2]) # {}

(***************************************************************************)
(* Persistence                                                             *)
(***************************************************************************)
SaveEvents == {i \in 1..Len(log) : log[i].ev = "save"}

SaveErrors ==
    {j \in 1..Len(results.errors) : results.errors[j].what = "Failed to save file"}

\* C14: the path a save writes to (save_updated_excel, save_result_to_excel)
\* is different from the input path, so the source file is not overwritten.
C14_OutputPathDiffers ==
    \A i \in 1..Len(files) :
       files[i].by \in {"save_updated_excel", "save_result_to_excel"} =>
          /\ files[i].path # files[i].src
          /\ (i = Len(files) /\ files[i].src = SourceFile(path)) =>
                files[i].path # SourceFile(path)

\* a workbook that an earlier run wrote was given as input and saved again
C14_Witness ==
    \E i \in 1..Len(files) :
       /\ files[i].by = "save_updated_excel"
       /\ Len(files[i].src.name) > 2
       /\ files[i].src.name[2] = "_updated_"

C16_SaveFailureReported ==
    (variant = "v2" /\ \E i \in SaveEvents : ~log[i].ok) =>
       /\ Cardinality(SaveErrors) = 1
       /\ ~results.saved
       /\ files = <<>>
       /\ (results.sheets_processed # <<>> \/ results.new_sheets # <<>>)
       /\ \A k \in 1..Len(results.sheets_processed) :
             \E j \in Executions(results.sheets_processed[k]) : log[j].ok
       /\ pc \in {"summary", "done"}
       /\ (pc = "done" => (returned = "summary" /\ escaped = "none"))

\* a run whose save failed has returned its summary
C16_Witness ==
    /\ variant = "v2" /\ pc = "done" /\ returned = "summary"
    /\ \E i \in SaveEvents : ~log[i].ok
    /\ results.sheets_processed # <<>>

\* C17: after every successful create_new_sheet run the name under which
\* the new table is recorded and saved is distinct from every sheet name of
\* the loaded workbook, so the saved workbook holds all original sheets plus
\* one more.
C17_NewSheetNameDistinct ==
    (variant = "v2" /\ results.intent = JStr("create_new_sheet")
                    /\ results.new_sheets # <<>>) =>
       /\ \A i \in 1..Len(results.new_sheets) :
             ~InSheets(sheets, results.new_sheets[i].name)
       /\ \A w \in 1..Len(files) :
             Len(files[w].sheets) = Len(sheet_names) + 1

\* snippets that change nothing: no statement, or result = df alone
NoOpSnippets == {<<>>, <<"result_df">>}

SameSet(a, b) == {a[i] : i \in 1..Len(a)} = {b[i] : i \in 1..Len(b)}

\* C13: round trip: a workbook loaded, updated over all its sheets with
\* no-op snippets and persisted gives an output workbook in which every
\* sheet has the column set and the row count of the original sheet of
\* that name.
C13_RoundTrip ==
    (/\ UpdateRun /\ targets = sheet_names
     /\ \A i \in 1..Len(log) : log[i].ev = "execute" => log[i].code \in NoOpSnippets
     /\ files # <<>>) =>
       /\ Len(files[1].sheets) = Len(sheet_names)
       /\ \A i \in 1..Len(sheet_names) :
             /\ files[1].sheets[i].name = sheet_names[i]
             /\ SameSet(files[1].sheets[i].table.columns, book.tables[i].columns)
             /\ Len(files[1].sheets[i].table.rows) = Len(book.tables[i].rows)

\* a workbook of two sheets went through no-op updates and was written
C13_Witness ==
    /\ UpdateRun /\ targets = sheet_names /\ Len(sheet_names) = 2
    /\ \A i \in 1..Len(log) : log[i].ev = "execute" => log[i].code \in NoOpSnippets
    /\ Len(results.sheets_processed) = 2
    /\ files # <<>>

\* error entries of results that name sheet s
ErrorsNaming(s) ==
    {j \in 1..Len(results.errors) :
        results.errors[j].what = "Error in" /\ results.errors[j].sheet = s}

\* the failed execution at position i of the log is isolated: one error
\* entry names its sheet, the sheet's table is the loaded one, and the run
\* goes on to the next targeted sheet (or to the save step after the last)
\* and, when it ends, has executed every targeted sheet of the workbook
FailureIsolated(i) ==
    LET s == log[i].sheet
        n == SheetIdx(sheets, s)
    IN  /\ Cardinality(ErrorsNaming(s)) = 1
        /\ heap[sheets[n].df] = book.tables[n]
        /\ (i = Len(log) =>
               /\ pc \in {"gen_update", "save", "summary", "done"}
               /\ (pc = "gen_update" <=> cur <= Len(targets))
               /\ cur = NextTarget(targets, sheets, cur)
               /\ (pc = "done" => returned = "summary"))
        /\ (returned = "summary" =>
               \A k \in 1..Len(targets) :
                  InSheets(sheets, targets[k]) => Executions(targets[k]) # {})

\* C6: in an update_existing run over several sheets, a snippet that fails
\* on one sheet adds exactly one error entry naming that sheet, leaves that
\* sheet's table as it was loaded, and does not stop the run: every later
\* targeted sheet is still generated for and executed.
C6_FailedSheetIsolated ==
    (UpdateRun /\ Len(targets) > 1) =>
       \A i \in 1..Len(log) :
          (log[i].ev = "execute" /\ ~log[i].ok) => FailureIsolated(i)

\* the same for the failures execute_snippet reports as a record (ok is
\* False), and a later generator call that raises ends the run as a fatal
\* error: holds
CaughtFailureIsolated ==
    UpdateRun =>
       \A i \in 1..Len(log) :
          (/\ log[i].ev = "execute" /\ ~log[i].ok
           /\ ~(i = Len(log) /\ escaped # "none")
           /\ ~(pc = "done" /\ returned = "fatal"))
          => FailureIsolated(i)

\* a run of two sheets whose first snippet failed and whose second ran
CaughtFailureReached ==
    /\ UpdateRun
    /\ Len(targets) = 2
    /\ returned = "summary"
    /\ \E i \in 1..Len(log) : log[i].ev = "execute" /\ ~log[i].ok /\ log[i].sheet = targets[1]
    /\ \E i \in 1..Len(log) : log[i].ev = "execute" /\ log[i].ok /\ log[i].sheet = targets[2]

\* the snippet, run to its end, leaves a table in 'result'
AssignsTable(snippet) ==
    \E i \in 1..Len(snippet) :
       /\ snippet[i] = "result_df"
       /\ \A j \in (i + 1)..Len(snippet) : snippet[j] # "result_val"

Processed(s) ==
    \E k \in 1..Len(results.sheets_processed) : results.sheets_processed[k] = s

\* the sheet at position n still has the table it was loaded with
AsLoaded(n) == sheets[n].df = n /\ heap[sheets[n].df] = book.tables[n]

PastSave == variant = "v2" /\ (pc = "summary" \/ (pc = "done" /\ returned = "summary"))

\* C22: process_query_all_sheets writes an output file if and only if,
\* after the intent branch, sheets_processed or new_sheets has an entry (a
\* write that itself fails leaves no file); a query_data run, a run in
\* which every snippet failed and a create run whose snippet did not assign
\* new_df write no file and report no saved_path.
C22_SavesIffChanged ==
    /\ (variant = "v2" /\ ~PastSave) => (files = <<>> /\ ~results.saved /\ SaveEvents = {})
    /\ PastSave =>
          LET changed == results.sheets_processed # <<>> \/ results.new_sheets # <<>>
              write_failed == \E i \in SaveEvents : ~log[i].ok
          IN  /\ SaveEvents # {} <=> changed
              /\ files # <<>> <=> (changed /\ ~write_failed)
              /\ Len(files) <= 1
              /\ results.saved <=> files # <<>>
              /\ results.intent = JStr("query_data") => (files = <<>> /\ ~results.saved)
              /\ (\A j \in 1..Len(log) : log[j].ev = "execute" => ~log[j].ok)
                    => (files = <<>> /\ ~results.saved)
              /\ (/\ results.intent = JStr("create_new_sheet")
                  /\ \A j \in 1..Len(log) : log[j].ev = "execute" =>
                        \A k \in 1..Len(log[j].code) : log[j].code[k] # "new_df")
                    => (files = <<>> /\ ~results.saved)

\* a query_data run whose snippet ran and gave its answer has returned its
\* summary, and no file was written
C22_Witness ==
    /\ variant = "v2" /\ pc = "done" /\ returned = "summary"
    /\ results.intent = JStr("query_data") /\ results.query_result
    /\ \E j \in 1..Len(log) : log[j].ev = "execute" /\ log[j].ok
    /\ files = <<>> /\ ~results.saved

\* the workbook written at position w of files has every loaded sheet in
\* workbook order, each with its current table, and then the new sheets
SavedComplete(w) ==
    LET wb == files[w].sheets
        n == Len(sheet_names)
        m == Len(results.new_sheets)
    IN  /\ Len(wb) = n + m
        /\ \A i \in 1..n :
              /\ wb[i].name = sheet_names[i]
              /\ wb[i].table = (IF Processed(sheet_names[i])
                                THEN heap[sheets[SheetIdx(sheets, sheet_names[i])].df]
                                ELSE book.tables[i])
        /\ \A k \in 1..m :
              /\ wb[n + k].name = results.new_sheets[k].name
              /\ wb[n + k].table = heap[results.new_sheets[k].df]

\* C23: whenever a run saves, the saved workbook contains every sheet of
\* the loaded workbook in the original order (the updated table for each
\* sheet in sheets_processed, the table as loaded for every other sheet)
\* followed by every newly created sheet; no original sheet is dropped.
C23_SavedWorkbookComplete ==
    variant = "v2" =>
       \A w \in 1..Len(files) :
          files[w].by = "save_updated_excel" => SavedComplete(w)

\* the same for the runs in which no new sheet has the name of a loaded
\* sheet: holds
DistinctNamesSavedComplete ==
    (/\ variant = "v2"
     /\ \A k \in 1..Len(results.new_sheets) : ~InSheets(sheets, results.new_sheets[k].name)) =>
       \A w \in 1..Len(files) :
          files[w].by = "save_updated_excel" => SavedComplete(w)

\* a workbook of two sheets, one updated and one whose snippet failed, was
\* written
DistinctNamesSavedReached ==
    /\ UpdateRun /\ Len(sheet_names) = 2 /\ files # <<>>
    /\ Len(results.sheets_processed) = 1 /\ ErrorsNaming(sheet_names[2]) # {}
    /\ \E j \in Executions(sheet_names[1]) : log[j].code = <<"set_cell", "result_df">>

\* a new sheet was written after the sheets of the workbook
NewSheetSavedReached ==
    /\ variant = "v2" /\ files # <<>> /\ results.new_sheets # <<>>
    /\ ~InSheets(sheets, results.new_sheets[1].name)

\* target_sheets of the Intent Record: absent is given as null
TargetSheets ==
    IF HasKey(intent.ret, "target_sheets") THEN Get(intent.ret, "target_sheets") ELSE JNull

TargetsAbsent == ~HasKey(intent.ret, "target_sheets")

WantsAll ==
    \/ TargetSheets.t = "null"
    \/ TargetSheets.t = "list" /\ \E i \in 1..Len(TargetSheets.kids) : TargetSheets.kids[i] = JStr("all")

Listed == {TargetSheets.kids[i].s : i \in 1..Len(TargetSheets.kids)}

\* the update branch has chosen its sheets for the record the classifier gave
SelectionMade ==
    /\ UpdateRun /\ pc # "dispatch"
    /\ intent.ret.t = "obj" /\ ReadIntent(intent.ret) = "none"
    /\ TargetSheets.t \in {"null", "list"}

\* the selection raised nothing, 'all' or no list gave every sheet, and a
\* list of names gave the listed sheets that exist, the others being
\* skipped without an error entry
SelectionTotal ==
    /\ returned = "fatal" => \E i \in 1..Len(log) : log[i].ev = "generate" /\ ~log[i].ok
    /\ WantsAll =>
          /\ targets = sheet_names
          /\ returned = "summary" =>
                \A k \in 1..Len(sheet_names) : Executions(sheet_names[k]) # {}
    /\ ~WantsAll =>
          /\ \A i \in 1..Len(log) :
                log[i].ev \in {"generate", "execute"} =>
                   (log[i].sheet \in Listed /\ InSheets(sheets, log[i].sheet))
          /\ returned = "summary" =>
                \A k \in 1..Len(sheet_names) :
                   sheet_names[k] \in Listed => Executions(sheet_names[k]) # {}
          /\ \A j \in 1..Len(results.errors) :
                results.errors[j].what = "Error in" => InSheets(sheets, results.errors[j].sheet)

\* C24: in an update_existing run target selection is total over every
\* Intent Record the classifier prompt allows: when target_sheets contains
\* "all", is absent or is null, every sheet of the workbook is processed;
\* when it lists names, exactly the listed names that exist in the workbook
\* are processed and unknown names are skipped without error.
C24_TargetSelectionTotal == SelectionMade => SelectionTotal

\* the same for the records whose target_sheets is a list or is absent: holds
ListedSelectionTotal ==
    (SelectionMade /\ (TargetSheets.t = "list" \/ TargetsAbsent)) => SelectionTotal

\* a list with an unknown name and the second sheet: the second sheet alone
\* was processed, and the run has returned its summary without an error
ListedSelectionReached ==
    /\ SelectionMade /\ ~WantsAll /\ returned = "summary"
    /\ Len(sheet_names) = 2 /\ \E n \in Listed : ~InSheets(sheets, n)
    /\ results.sheets_processed = <<sheet_names[2]>> /\ results.errors = <<>>
    /\ Executions(sheet_names[1]) = {}

\* no target_sheets in the record: both sheets were processed
AbsentSelectionReached ==
    /\ SelectionMade /\ TargetsAbsent /\ returned = "summary"
    /\ results.sheets_processed = sheet_names /\ Len(sheet_names) = 2

\* the entry's metadata describes the table the entry holds
MetadataConsistent(entry) ==
    LET t == heap[entry.df]
    IN  /\ entry.columns = t.columns
        /\ entry.preview = Head5(t.rows)
        /\ entry.shape = <<Len(t.rows), Len(t.columns)>>

\* C25: at every point of a run each sheet entry's metadata is consistent
\* with its table: columns is the table's column list, preview its first
\* min(5, row count) rows and shape its row and column counts, after
\* loading and still after an update has replaced the sheet's table.
C25_MetadataConsistent ==
    variant = "v2" => \A n \in 1..Len(sheets) : MetadataConsistent(sheets[n])

\* the same for the sheets whose table has not been replaced: holds
LoadedMetadataConsistent ==
    variant = "v2" =>
       \A n \in 1..Len(sheets) : ~Processed(sheets[n].name) => MetadataConsistent(sheets[n])

\* the first sheet's table was replaced by one without its first column,
\* and the generator was then called for the second sheet
StaleMetadataReached ==
    /\ UpdateRun /\ Len(sheets) = 2 /\ Processed(sheets[1].name)
    /\ sheets[1].columns # heap[sheets[1].df].columns
    /\ ~Processed(sheets[2].name) /\ MetadataConsistent(sheets[2])
    /\ \E i \in 1..Len(log) : log[i].ev = "generate" /\ log[i].sheet = sheets[2].name

====
